---- MODULE Spec2Model ----
(***************************************************************************)
(* Audiobook-Organizer backend: the change tracker (audiobook_tracker.py), *)
(* the work grouper (metadata_extractor.py) and the organize commit        *)
(* (app.py), as one state machine over the media tree, the metadata        *)
(* directory, the covers directory and the tracking summary.               *)
(*                                                                         *)
(* A media file is a pair <<folder, name>>.  A path STRING is a triple     *)
(* <<folder, separator, name>>: str(Path) joins with os.sep, the record    *)
(* builder rewrites "\\" to "/", and find_orphaned_metadata rewrites "/"   *)
(* to "\\" before it looks a path up in the current file set.              *)
(***************************************************************************)
EXTENDS Integers, Sequences, FiniteSets, TLC

\* ---- bounds ----
MaxTime == 2      \* file modification times are 1..MaxTime
MaxId == 2        \* identifiers handed out by uuid4 are 1..MaxId
MaxClock == 1     \* the wall clock (record-file mtimes) runs 0..MaxClock
MaxCand == 2      \* the catalog returns 0..MaxCand candidates
MaxEnv == 1       \* number of filesystem/catalog changes in one behaviour

\* ---- the media tree ----
Folders == {"A", "B"}
FolderSeq == <<"A", "B">>
AllPaths == {<<"A", "f1">>, <<"A", "f2">>, <<"B", "f1">>}
PathSeq == <<(<<"A", "f1">>), (<<"A", "f2">>), (<<"B", "f1">>)>>

\* TRCK tag of each file (0 = missing): A/f2 is track 1, A/f1 is track 2
TrackTag(p) == IF p = <<"A", "f1">> THEN 2 ELSE IF p = <<"A", "f2">> THEN 1 ELSE 0
\* embedded artwork of each file
HasArtwork(p) == p \in {<<"A", "f2">>, <<"B", "f1">>}

\* directory entries that are not audio files: a hidden file and a plain one
Entries == {<<".", "nfo">>, <<"n", "otes.txt">>}

STATUS_OPTIONS == {"pending", "accepted", "ignored", "broken", "manual"}
StatusInputs == {"accepted", "ignored"}

VARIABLES
    sse,        \* change_events, and the position and output of the event stream
    sep,        \* os.sep of the host: "/" or "\\"
    fs,         \* media tree: [AllPaths -> 0..MaxTime], 0 = no such file
    dirs,       \* existing folders below the media root
    extras,     \* other directory entries of each folder (names as <<first char, rest>>)
    dest,       \* files present under the destination root
    records,    \* metadata directory: identifier -> Work Record
    covers,     \* covers directory: stems of the cover files
    summary,    \* tracking_summary.json
    catalog,    \* number of candidates the catalog client returns
    nextId,     \* next fresh identifier
    clock,      \* wall clock
    env,        \* environment changes so far
    org,        \* locals of the organize call in flight
    watcher,    \* the polling watcher thread: position, known_files and locals of a rescan
    result      \* response of the call that has just returned

vars == <<sse, sep, fs, dirs, extras, dest, records, covers, summary, catalog, nextId, clock, env, org, watcher, result>>

\* ---- helpers ----
Max(S) == CHOOSE x \in S : \A y \in S : y <= x

Range(s) == {s[i] : i \in DOMAIN s}

\* restriction of a function to a subset of its domain
Restrict(f, S) == [x \in S |-> f[x]]

\* filter of a sequence by membership, keeping order
SelectIn(s, S) == SelectSeq(s, LAMBDA x : x \in S)

\* str(path.relative_to(media_root)): joined with os.sep
RelStr(p) == <<p[1], sep, p[2]>>
\* str.replace(old, new) on a path string
ReplaceSep(s, old, new) == IF s[2] = old THEN <<s[1], new, s[3]>> ELSE s
\* str(Path(s).parent): the folder part (either separator parses on Windows;
\* "/" parses on POSIX, and stored paths only ever hold "/")
ParentOf(s) == s[1]
\* Path(MEDIA_ROOT) / s
MediaFile(s) == <<s[1], s[3]>>

\* ---- audiobook_tracker.py ----
AudioIn(F, f) == {p \in AllPaths : p[1] = f /\ F[p] # 0}

\* a folder structure that records the oldest modification time of a folder
get_current_folders_oldest(F) ==
    [f \in {g \in Folders : AudioIn(F, g) # {}} |->
        [files |-> {p[2] : p \in AudioIn(F, f)},
         file_count |-> Cardinality(AudioIn(F, f)),
         last_modified |-> CHOOSE t \in {F[p] : p \in AudioIn(F, f)} :
                               \A p \in AudioIn(F, f) : t <= F[p]]]

get_current_folders(F) ==
    [f \in {g \in Folders : AudioIn(F, g) # {}} |->
        [files |-> {p[2] : p \in AudioIn(F, f)},
         file_count |-> Cardinality(AudioIn(F, f)),
         last_modified |-> Max({F[p] : p \in AudioIn(F, f)})]]

get_current_files(F) == {RelStr(p) : p \in {q \in AllPaths : F[q] # 0}}

DefaultSummary == [last_scan |-> -1, tracked_folders |-> <<>>, audiobook_count |-> 0]

FolderIsDue(T, cur, f) ==
    IF f \in DOMAIN T
    THEN cur[f].last_modified > T[f].last_modified \/ cur[f].file_count # T[f].file_count
    ELSE TRUE

get_folders_to_scan(S, F) ==
    LET cur == get_current_folders(F)
    IN {f \in DOMAIN cur : FolderIsDue(S.tracked_folders, cur, f)}

\* sorted(..., key=..., reverse=desc): stable insertion of x into sorted s
RECURSIVE InsertSorted(_, _, _, _)
InsertSorted(s, x, key, desc) ==
    IF s = <<>> THEN <<x>>
    ELSE IF (IF desc THEN key[Head(s)] >= key[x] ELSE key[Head(s)] <= key[x])
         THEN <<Head(s)>> \o InsertSorted(Tail(s), x, key, desc)
         ELSE <<x>> \o s

RECURSIVE StableSort(_, _, _)
StableSort(s, key, desc) ==
    IF s = <<>> THEN <<>>
    ELSE InsertSorted(StableSort(SubSeq(s, 1, Len(s) - 1), key, desc), s[Len(s)], key, desc)

\* metadata_dir.glob('*.json') minus the summary: directory order, which is
\* stable while the directory is unchanged (ascending identifier here)
GlobRecords(R) == SelectIn([i \in 1..MaxId |-> i], DOMAIN R)

PathsExist(R, F, r) ==
    \E i \in DOMAIN R[r].paths :
        ReplaceSep(R[r].paths[i], "/", "\\") \in get_current_files(F)

FolderIsTracked(S, R, r) ==
    \E i \in DOMAIN R[r].paths : ParentOf(R[r].paths[i]) \in DOMAIN S.tracked_folders

IsOrphaned(S, R, F, r) ==
    IF R[r].paths = <<>> THEN TRUE
    ELSE ~PathsExist(R, F, r) \/ ~FolderIsTracked(S, R, r)

\* folder_metadata_map[f]: the non-orphaned records whose first path lies in f
FolderMetadataList(S, R, F, f) ==
    SelectSeq(GlobRecords(R),
              LAMBDA r : ~IsOrphaned(S, R, F, r) /\ ParentOf(R[r].paths[1]) = f)

\* metadata_list.sort(key=modified_time, reverse=True); all but [0] are duplicates
DuplicatesOf(S, R, F, f) ==
    LET lst == FolderMetadataList(S, R, F, f)
        srt == StableSort(lst, [r \in DOMAIN R |-> R[r].mtime], TRUE)
    IN IF Len(lst) > 1 THEN Range(Tail(srt)) ELSE {}

find_orphaned_metadata(S, R, C, F) ==
    LET orphaned == {r \in DOMAIN R : IsOrphaned(S, R, F, r)}
        dups == UNION {DuplicatesOf(S, R, F, f) : f \in Folders}
        flagged == orphaned \cup dups
        active_metadata_uuids == DOMAIN R
    IN [metadata |-> flagged,
        covers |-> {r \in flagged : R[r].cover /\ r \in C}
                   \cup {c \in C : c \notin active_metadata_uuids}]

\* a tracker that stamps the scan time but keeps the old folder map
update_tracking_keeping_folders(S, R, F, now) ==
    [S EXCEPT !.last_scan = now, !.audiobook_count = Cardinality(DOMAIN R)]

update_tracking_after_scan(S, R, F, now) ==
    [S EXCEPT !.last_scan = now,
              !.tracked_folders = get_current_folders(F),
              !.audiobook_count = Cardinality(DOMAIN R)]

\* ---- metadata_extractor.py ----
TopN == 10

\* enhance_audiobook_metadata: number of suggestions kept (ids 1..n)
EnhanceCount(cat) == IF cat > TopN THEN TopN ELSE cat

\* the audio files of folder f in directory order
FolderGroup(F, f) == SelectIn(PathSeq, AudioIn(F, f))

\* audible_last_search is the only place of a record where a message of the
\* enrichment is kept; build_audiobook_metadata writes the keys original,
\* audible_suggestions and status only
build_audiobook_metadata(group, cat, now) ==
    LET files_group == StableSort(group, [p \in AllPaths |-> TrackTag(p)], FALSE)
        first_audio == files_group[1]
    IN [paths |-> [i \in DOMAIN files_group |->
                      ReplaceSep(RelStr(files_group[i]), "\\", "/")],
        cover |-> HasArtwork(first_audio),
        nsugg |-> EnhanceCount(cat),
        selected |-> 0,
        audible_last_search |-> "",
        status |-> "pending",
        mtime |-> now]

\* a writer that overwrites the folder's previous record files
write_records_replacing(R, first, built) ==
    LET new == first..(first + Len(built) - 1)
        folders == {ParentOf(built[i].paths[1]) : i \in DOMAIN built}
        kept == {r \in DOMAIN R :
                    R[r].paths = <<>> \/ ParentOf(R[r].paths[1]) \notin folders}
    IN [r \in kept \cup new |-> IF r \in new THEN built[r - first + 1] ELSE R[r]]

\* "with open(METADATA_DIR / f'{audiobook_uuid}.json', 'w')": each built record
\* goes to a file named by its fresh identifier; no other file is touched
write_records(R, first, built) ==
    LET new == first..(first + Len(built) - 1)
    IN [r \in (DOMAIN R) \cup new |-> IF r \in new THEN built[r - first + 1] ELSE R[r]]

\* ---- state machine ----
NoResult == [op |-> "none"]

OrgIdle ==
    [pc |-> "idle", copy_only |-> TRUE, cleanup_empty_folders |-> TRUE, dest_ok |-> TRUE,
     accepted |-> {}, loaded |-> <<>>, todo |-> {}, source_folders_to_check |-> {},
     successfully_organized |-> {}, moved |-> {}, attempted |-> {}, missing |-> {},
     processed_count |-> 0, error_count |-> 0]

\* the watcher between two polls; known_files is the baseline of _scan_initial
WatcherAsleep ==
    [pc |-> "sleep", known_files |-> [p \in AllPaths |-> 0], folders_to_scan |-> {},
     current_folders |-> <<>>, count |-> 0]

\* "change_events = []", and an event stream that has just been opened
\* ("last_seen = 0") and has sent nothing
NoEvents == [change_events |-> <<>>, appended |-> 0, last_seen |-> 0, sent |-> <<>>]

\* the service starts with empty metadata and covers directories, on either
\* kind of host, over whatever media tree and catalog are there

Init ==
    /\ sse = NoEvents
    /\ sep \in {"/", "\\"}
    /\ fs \in [AllPaths -> 0..MaxTime]
    /\ dirs = {p[1] : p \in {q \in AllPaths : fs[q] # 0}}
    /\ extras \in [Folders -> SUBSET Entries]
    /\ \A f \in Folders : f \notin dirs => extras[f] = {}
    /\ dest = {}
    /\ records = <<>>
    /\ covers = {}
    /\ summary = DefaultSummary
    /\ catalog \in 0..MaxCand
    /\ nextId = 1
    /\ clock = 0
    /\ env = 0
    /\ org = OrgIdle
    /\ watcher = [WatcherAsleep EXCEPT !.known_files = fs]
    /\ result = NoResult

\* ---- environment ----
\* a file is created or rewritten in the media tree, with any mtime
WriteFile(p, t) ==
    /\ env < MaxEnv
    /\ fs[p] # t
    /\ fs' = [fs EXCEPT ![p] = t]
    /\ dirs' = dirs \cup {p[1]}
    /\ env' = env + 1
    /\ result' = NoResult
    /\ UNCHANGED <<sse, sep, watcher, extras, dest, records, covers, summary, catalog, nextId, clock, org>>

DeleteFile(p) ==
    /\ env < MaxEnv
    /\ fs[p] # 0
    /\ fs' = [fs EXCEPT ![p] = 0]
    /\ env' = env + 1
    /\ result' = NoResult
    /\ UNCHANGED <<sse, sep, watcher, extras, dirs, dest, records, covers, summary, catalog, nextId, clock, org>>

Tick ==
    /\ clock < MaxClock
    /\ org.pc = "idle"
    /\ clock' = clock + 1
    /\ result' = NoResult
    /\ UNCHANGED <<sse, sep, watcher, extras, fs, dirs, dest, records, covers, summary, catalog, nextId, env, org>>

\* ---- change notification (app.py notify_change, stream_events) ----
MaxEvents == 102   \* calls of notify_change in a behaviour
QueueLimit == 100

\* "change_events.append(...)" and "if len(change_events) > 100:
\* change_events.pop(0)"; the event is identified by its timestamp, the number
\* of the call
notify_change(change_events, event) ==
    LET appended == Append(change_events, event)
    IN IF Len(appended) > QueueLimit THEN Tail(appended) ELSE appended

\* one call of notify_change, made by update_status_by_uuid, scan_library,
\* purge_and_regenerate or organize_audiobooks; the queue is written nowhere else
NotifyChange ==
    /\ sse.appended < MaxEvents
    /\ sse' = [sse EXCEPT !.appended = @ + 1,
                          !.change_events = notify_change(@, sse.appended + 1)]
    /\ result' = [op |-> "notify"]
    /\ UNCHANGED <<sep, watcher, extras, fs, dirs, dest, records, covers, summary, catalog, nextId, clock, env, org>>

\* one round of "while True" in event_stream, under change_event_lock:
\* "for i, event in enumerate(change_events[last_seen:], last_seen)" yields
\* every event from position last_seen on and sets last_seen = i + 1
EventStreamPoll ==
    /\ LET new == SubSeq(sse.change_events, sse.last_seen + 1, Len(sse.change_events))
       IN sse' = [sse EXCEPT !.sent = @ \o new,
                             !.last_seen = IF new = <<>> THEN @ ELSE Len(sse.change_events)]
    /\ result' = [op |-> "poll"]
    /\ UNCHANGED <<sep, watcher, extras, fs, dirs, dest, records, covers, summary, catalog, nextId, clock, env, org>>

\* ---- scan (app.py scan_library) ----
\* process_all_audiobooks / process_specific_folders followed by
\* update_tracking_after_scan
\* unparsed: the files for which File(path) returns nothing or raises, which the
\* listing loop skips; failing: the folders whose build_audiobook_metadata
\* raises before its record is written, which the folder loop skips; both are
\* files and folders that are there
ScanLibraryWith(full, unparsed, failing) ==
    /\ org.pc = "idle"
    /\ unparsed \subseteq {p \in AllPaths : fs[p] # 0}
    /\ failing \subseteq {f \in Folders : AudioIn(fs, f) # {}}
    /\ LET due == IF full THEN {f \in Folders : AudioIn(fs, f) # {}}
                  ELSE get_folders_to_scan(summary, fs)
           folder_groups == [f \in Folders |-> SelectIn(FolderGroup(fs, f), AllPaths \ unparsed)]
           todo == SelectIn(FolderSeq, {f \in due : f \in dirs /\ folder_groups[f] # <<>>
                                                     /\ f \notin failing})
           count == Len(todo)
           built == [i \in 1..count |->
                        build_audiobook_metadata(folder_groups[todo[i]], catalog, clock)]
           R2 == write_records(records, nextId, built)
       IN /\ nextId + count - 1 <= MaxId
          /\ records' = R2
          /\ covers' = covers \cup {r \in nextId..(nextId + count - 1) : R2[r].cover}
          /\ nextId' = nextId + count
          /\ summary' = update_tracking_after_scan(summary, R2, fs, clock)
          /\ result' = [op |-> "scan", count |-> count, full |-> full,
                        due |-> due, new |-> nextId..(nextId + count - 1),
                        unparsed |-> unparsed, failing |-> failing]
    /\ UNCHANGED <<sse, sep, watcher, extras, fs, dirs, dest, catalog, clock, env, org>>

\* a scan in which every file parses and every record is built
ScanLibrary(full) == ScanLibraryWith(full, {}, {})

\* ---- status (app.py update_status_by_uuid) ----
UpdateStatus(r, st) ==
    /\ org.pc = "idle"
    /\ r \in DOMAIN records
    /\ st \in STATUS_OPTIONS
    /\ records' = [records EXCEPT ![r].status = st, ![r].mtime = clock]
    /\ result' = [op |-> "status"]
    /\ UNCHANGED <<sse, sep, watcher, extras, fs, dirs, dest, covers, summary, catalog, nextId, clock, env, org>>

\* ---- tracker calls ----
GetFoldersToScan ==
    /\ org.pc = "idle"
    /\ result' = [op |-> "due", due |-> get_folders_to_scan(summary, fs)]
    /\ UNCHANGED <<sse, sep, watcher, extras, fs, dirs, dest, records, covers, summary, catalog, nextId, clock, env, org>>

\* a report that deletes what it finds
FindOrphanedDeleting ==
    /\ org.pc = "idle"
    /\ LET found == find_orphaned_metadata(summary, records, covers, fs)
       IN /\ records' = Restrict(records, DOMAIN records \ found.metadata)
          /\ covers' = covers \ found.covers
          /\ result' = [op |-> "orphaned", found |-> found]
    /\ UNCHANGED <<sse, sep, watcher, extras, fs, dirs, dest, summary, catalog, nextId, clock, env, org>>

\* app.py get_orphaned
FindOrphaned ==
    /\ org.pc = "idle"
    /\ result' = [op |-> "orphaned",
                  found |-> find_orphaned_metadata(summary, records, covers, fs)]
    /\ UNCHANGED <<sse, sep, watcher, extras, fs, dirs, dest, records, covers, summary, catalog, nextId, clock, env, org>>

\* a cleanup that deletes in a dry run too
CleanupIgnoringDryRun(dry_run) ==
    /\ org.pc = "idle"
    /\ LET found == find_orphaned_metadata(summary, records, covers, fs)
       IN /\ records' = Restrict(records, DOMAIN records \ found.metadata)
          /\ covers' = covers \ found.covers
          /\ result' = [op |-> "cleanup", dry_run |-> dry_run,
                        orphaned_metadata_count |-> Cardinality(found.metadata),
                        orphaned_covers_count |-> Cardinality(found.covers),
                        cleaned_items |-> Cardinality(found.metadata) + Cardinality(found.covers)]
    /\ UNCHANGED <<sse, sep, watcher, extras, fs, dirs, dest, summary, catalog, nextId, clock, env, org>>

\* a cleanup that removes the orphaned records and leaves their covers
CleanupRecordsOnly(dry_run) ==
    /\ org.pc = "idle"
    /\ LET found == find_orphaned_metadata(summary, records, covers, fs)
       IN /\ records' = IF dry_run THEN records
                        ELSE Restrict(records, DOMAIN records \ found.metadata)
          /\ covers' = covers
          /\ result' = [op |-> "cleanup", dry_run |-> dry_run,
                        orphaned_metadata_count |-> Cardinality(found.metadata),
                        orphaned_covers_count |-> Cardinality(found.covers),
                        cleaned_items |-> IF dry_run THEN 0 ELSE Cardinality(found.metadata)]
    /\ UNCHANGED <<sse, sep, watcher, extras, fs, dirs, dest, summary, catalog, nextId, clock, env, org>>

\* app.py cleanup_orphaned -> cleanup_orphaned_data(dry_run)
CleanupOrphaned(dry_run) ==
    /\ org.pc = "idle"
    /\ LET found == find_orphaned_metadata(summary, records, covers, fs)
       IN /\ records' = IF dry_run THEN records
                        ELSE Restrict(records, DOMAIN records \ found.metadata)
          /\ covers' = IF dry_run THEN covers ELSE covers \ found.covers
          /\ result' = [op |-> "cleanup", dry_run |-> dry_run,
                        orphaned_metadata_count |-> Cardinality(found.metadata),
                        orphaned_covers_count |-> Cardinality(found.covers),
                        cleaned_items |-> IF dry_run THEN 0
                                          ELSE Cardinality(found.metadata) + Cardinality(found.covers)]
    /\ UNCHANGED <<sse, sep, watcher, extras, fs, dirs, dest, summary, catalog, nextId, clock, env, org>>

\* tracker.get_scan_report (app.py get_status)
\* a status report that also refreshes the tracking summary
GetScanReportRefreshing ==
    /\ org.pc = "idle"
    /\ summary' = update_tracking_after_scan(summary, records, fs, clock)
    /\ result' = [op |-> "report",
                  last_scan |-> summary.last_scan,
                  audiobooks_tracked |-> summary.audiobook_count,
                  current_audio_files |-> Cardinality(get_current_files(fs)),
                  current_folders |-> Cardinality(DOMAIN get_current_folders(fs)),
                  orphaned_metadata |-> 0,
                  orphaned_covers |-> 0]
    /\ UNCHANGED <<sse, sep, watcher, extras, fs, dirs, dest, records, covers, catalog, nextId, clock, env, org>>

GetScanReport ==
    /\ org.pc = "idle"
    /\ LET found == find_orphaned_metadata(summary, records, covers, fs)
       IN result' = [op |-> "report",
                     last_scan |-> summary.last_scan,
                     audiobooks_tracked |-> summary.audiobook_count,
                     current_audio_files |-> Cardinality(get_current_files(fs)),
                     current_folders |-> Cardinality(DOMAIN get_current_folders(fs)),
                     orphaned_metadata |-> Cardinality(found.metadata),
                     orphaned_covers |-> Cardinality(found.covers)]
    /\ UNCHANGED <<sse, sep, watcher, extras, fs, dirs, dest, records, covers, summary, catalog, nextId, clock, env, org>>

\* ---- selection and enrichment (app.py) ----
\* the values of "selected_id" in a JSON body; n is the value Python compares
\* with (True is 1, False is 0)
JsonInt(n) == [type |-> "int", n |-> n]

JsonBool(b) == [type |-> "bool", n |-> IF b THEN 1 ELSE 0]

JsonString == [type |-> "str", n |-> 0]

JsonNull == [type |-> "null", n |-> 0]

\* isinstance(v, int): bool is a subclass of int
isinstance_int(v) == v.type \in {"int", "bool"}

\* select_audible_suggestion: the id must pass "isinstance(selected_id, int)",
\* be at least 1 and equal the id of a suggestion of the record (ids are
\* 1..nsugg); the value is then stored as the record's selection
SelectAudible(r, selected_id) ==
    /\ org.pc = "idle"
    /\ LET ok == /\ isinstance_int(selected_id)
                 /\ selected_id.n >= 1
                 /\ r \in DOMAIN records
                 /\ records[r].nsugg > 0
                 /\ \E id \in 1..records[r].nsugg : id = selected_id.n
       IN /\ records' = IF ok THEN [records EXCEPT ![r].selected = selected_id.n,
                                                   ![r].mtime = clock]
                        ELSE records
          /\ result' = [op |-> "select", ok |-> ok, uuid |-> r, selected_id |-> selected_id]
    /\ UNCHANGED <<sse, sep, watcher, extras, fs, dirs, dest, covers, summary, catalog, nextId, clock, env, org>>

SelectInputs ==
    {JsonInt(i) : i \in 0..(MaxCand + 1)} \cup {JsonBool(TRUE), JsonBool(FALSE), JsonString, JsonNull}

\* enhance_with_audible: new suggestions and the default selection, when the
\* catalog returns any
EnhanceWithAudible(r) ==
    /\ org.pc = "idle"
    /\ r \in DOMAIN records
    /\ LET n == EnhanceCount(catalog)
       IN /\ records' = IF n > 0 THEN [records EXCEPT ![r].nsugg = n, ![r].selected = 1,
                                                      ![r].audible_last_search = "Found ranked suggestions",
                                                      ![r].mtime = clock]
                        ELSE records
          /\ result' = [op |-> "enhance", uuid |-> r, enhanced |-> n > 0]
    /\ UNCHANGED <<sse, sep, watcher, extras, fs, dirs, dest, covers, summary, catalog, nextId, clock, env, org>>

\* bulk_enhance_audible: every record (all of them fit the default limit) that
\* has no suggestions, or every record when force_refresh, gets the new
\* suggestions when the catalog returns any; the selection id is not written
BulkEnhance(force_refresh) ==
    /\ org.pc = "idle"
    /\ LET n == EnhanceCount(catalog)
           todo == {r \in DOMAIN records : force_refresh \/ records[r].nsugg = 0}
           enhanced == IF n > 0 THEN todo ELSE {}
       IN /\ records' = [r \in DOMAIN records |->
                            IF r \in enhanced
                            THEN [records[r] EXCEPT !.nsugg = n, !.mtime = clock,
                                                    !.audible_last_search = "Found ranked suggestions"]
                            ELSE records[r]]
          /\ result' = [op |-> "bulk", processed |-> Cardinality(todo),
                        enhanced |-> Cardinality(enhanced)]
    /\ UNCHANGED <<sse, sep, watcher, extras, fs, dirs, dest, covers, summary, catalog, nextId, clock, env, org>>

\* manual_audible_search on the stored record: found is the number of
\* candidates the catalog returns for the operator's query; the ranked top
\* suggestions replace the list and the selection goes back to the first
ManualSearch(r, found) ==
    /\ org.pc = "idle"
    /\ r \in DOMAIN records
    /\ LET n == EnhanceCount(found)
       IN /\ records' = IF n > 0 THEN [records EXCEPT ![r].nsugg = n, ![r].selected = 1,
                                                      ![r].audible_last_search = "Manual search",
                                                      ![r].mtime = clock]
                        ELSE records
          /\ result' = [op |-> "manualsearch", uuid |-> r, success |-> n > 0]
    /\ UNCHANGED <<sse, sep, watcher, extras, fs, dirs, dest, covers, summary, catalog, nextId, clock, env, org>>

\* the catalog contents change (or the catalog goes down: 0 candidates)
CatalogChange(c) ==
    /\ env < MaxEnv
    /\ org.pc = "idle"
    /\ c \in 0..MaxCand
    /\ c # catalog
    /\ catalog' = c
    /\ env' = env + 1
    /\ result' = NoResult
    /\ UNCHANGED <<sse, sep, watcher, extras, fs, dirs, dest, records, covers, summary, nextId, clock, org>>

\* ---- path_generator.py ----
\* generate_audiobook_paths: one generated path per original path; the model of a
\* generated path is <<suggestion used, part number>>, part 0 for a single file
generate_audiobook_paths(suggestion, original_paths) ==
    IF Len(original_paths) = 1 THEN <<(<<suggestion, 0>>)>>
    ELSE [i \in DOMAIN original_paths |-> <<suggestion, i>>]

NoPaths == [ok |-> FALSE]

\* a path generation that uses the first suggestion for an index out of range
generate_paths_first_on_bad_index(rec, index) ==
    IF rec.paths = <<>> \/ rec.nsugg = 0 THEN NoPaths
    ELSE [ok |-> TRUE,
          organized_paths |->
              generate_audiobook_paths(<<ParentOf(rec.paths[1]),
                                         IF index >= rec.nsugg THEN 1 ELSE index + 1>>,
                                       rec.paths),
          original_paths |-> rec.paths]

\* generate_paths_for_audiobook(audiobook_data, selected_suggestion_index)
generate_paths_for_audiobook(rec, index) ==
    IF rec.paths = <<>> THEN NoPaths
    ELSE IF rec.nsugg = 0 \/ index >= rec.nsugg THEN NoPaths
    ELSE [ok |-> TRUE,
          organized_paths |->
              generate_audiobook_paths(<<ParentOf(rec.paths[1]), index + 1>>, rec.paths),
          original_paths |-> rec.paths]

\* app.py generate_audiobook_paths_endpoint: the index of the suggestion whose id
\* is the selected id (the first one when no id matches), then path generation
GeneratePathsEndpoint(r) ==
    /\ org.pc = "idle"
    /\ result' =
          IF r \notin DOMAIN records THEN [op |-> "pathsreq", uuid |-> r, ok |-> FALSE, status |-> 404]
          ELSE LET rec == records[r]
                   selected_audible_id == IF rec.selected # 0 THEN rec.selected ELSE 1
                   selected_suggestion_index ==
                       IF selected_audible_id \in 1..rec.nsugg
                       THEN selected_audible_id - 1 ELSE 0
                   path_result == generate_paths_for_audiobook(rec, selected_suggestion_index)
               IN IF ~path_result.ok
                  THEN [op |-> "pathsreq", uuid |-> r, ok |-> FALSE, status |-> 400]
                  ELSE [op |-> "pathsreq", uuid |-> r, ok |-> TRUE, status |-> 200,
                        paths |-> path_result]
    /\ UNCHANGED <<sse, sep, watcher, extras, fs, dirs, dest, records, covers, summary, catalog, nextId, clock, env, org>>

\* ---- text: a Python str is a sequence of one-character strings ----
IsSpace(c) == c \in {" ", "\t", "\n", "\r", "\f"}

IsDigit(c) == c \in {"0", "1", "2", "3", "4", "5", "6", "7", "8", "9"}

\* str.replace(old, new) for a one-character old
RECURSIVE Replace(_, _, _)
Replace(text, old, new) ==
    IF text = <<>> THEN <<>>
    ELSE (IF Head(text) = old THEN new ELSE <<Head(text)>>) \o Replace(Tail(text), old, new)

RECURSIVE LStrip(_, _)
LStrip(text, chars) ==
    IF text # <<>> /\ Head(text) \in chars THEN LStrip(Tail(text), chars) ELSE text

RECURSIVE RStrip(_, _)
RStrip(text, chars) ==
    IF text # <<>> /\ text[Len(text)] \in chars
    THEN RStrip(SubSeq(text, 1, Len(text) - 1), chars) ELSE text

\* re.sub(r'\s+', ' ', text)
RECURSIVE CollapseSpace(_)
CollapseSpace(text) ==
    IF text = <<>> THEN <<>>
    ELSE IF IsSpace(Head(text))
         THEN <<" ">> \o CollapseSpace(LStrip(Tail(text), {" ", "\t", "\n", "\r", "\f"}))
         ELSE <<Head(text)>> \o CollapseSpace(Tail(text))

\* str.strip()
Strip(text) == RStrip(LStrip(text, {" ", "\t", "\n", "\r", "\f"}), {" ", "\t", "\n", "\r", "\f"})

\* str(n) of a natural number
RECURSIVE Digits(_)
Digits(n) ==
    LET d == <<"0", "1", "2", "3", "4", "5", "6", "7", "8", "9">>
    IN IF n < 10 THEN <<d[n + 1]>> ELSE Digits(n \div 10) \o <<d[(n % 10) + 1]>>

\* f"{i:02d}"
Pad2(i) == IF i < 10 THEN <<"0">> \o Digits(i) ELSE Digits(i)

\* the last index of character c in text, 0 when there is none (rfind + 1)
LastIndex(text, c) ==
    IF \E i \in DOMAIN text : text[i] = c
    THEN Max({i \in DOMAIN text : text[i] = c}) ELSE 0

\* pathlib: Path(p).name of a '/'-separated path, and Path(p).suffix
NameOf(path) == SubSeq(path, LastIndex(path, "/") + 1, Len(path))

Suffix(path) ==
    LET name == NameOf(path)
        i == LastIndex(name, ".")
    IN IF 1 < i /\ i < Len(name) THEN SubSeq(name, i, Len(name)) ELSE <<>>

\* dict.get(key, default) on a dict kept as the sequence of its items
Get(d, key, default) ==
    IF \E i \in DOMAIN d : d[i][1] = key
    THEN d[CHOOSE i \in DOMAIN d : d[i][1] = key][2]
    ELSE default

\* ---- path_generator.py on text ----
\* the replacement table of sanitize_filename without the entry for ':'
replacements_dropping_colon ==
    << <<":", <<>> >>, <<"?", <<>> >>, <<"*", <<>> >>, <<"\"", <<"'">> >>,
       <<"<", <<"(">> >>, <<">", <<")">> >>, <<"|", <<"-">> >>, <<"/", <<"-">> >>,
       <<"\\", <<"-">> >>, <<"\n", <<" ">> >>, <<"\r", <<" ">> >>, <<"\t", <<" ">> >> >>

replacements ==
    << <<":", <<" ", "-">> >>, <<"?", <<>> >>, <<"*", <<>> >>, <<"\"", <<"'">> >>,
       <<"<", <<"(">> >>, <<">", <<")">> >>, <<"|", <<"-">> >>, <<"/", <<"-">> >>,
       <<"\\", <<"-">> >>, <<"\n", <<" ">> >>, <<"\r", <<" ">> >>, <<"\t", <<" ">> >> >>

\* "for old, new in replacements.items(): sanitized = sanitized.replace(old, new)"
RECURSIVE ApplyReplacements(_, _)
ApplyReplacements(text, k) ==
    IF k > Len(replacements) THEN text
    ELSE ApplyReplacements(Replace(text, replacements[k][1], replacements[k][2]), k + 1)

sanitize_filename(text) ==
    IF text = <<>> THEN <<>>
    ELSE RStrip(Strip(CollapseSpace(ApplyReplacements(text, 1))), {".", " "})

\* re.search(r'(\d{4})', year_str): the first four consecutive digits
RECURSIVE FirstFourDigits(_)
FirstFourDigits(text) ==
    IF Len(text) < 4 THEN <<>>
    ELSE IF \A i \in 1..4 : IsDigit(text[i]) THEN SubSeq(text, 1, 4)
    ELSE FirstFourDigits(Tail(text))

extract_year(year_value) == IF year_value = <<>> THEN <<>> ELSE FirstFourDigits(year_value)

UnknownSeries == <<"U", "n", "k", "n", "o", "w", "n", " ", "S", "e", "r", "i", "e", "s">>

UnknownTitle == <<"U", "n", "k", "n", "o", "w", "n", " ", "T", "i", "t", "l", "e">>

\* the two folder names of generate_audiobook_paths
series_folder_of(audible_metadata) ==
    LET series == Get(audible_metadata, "series", <<>>)
    IN sanitize_filename(IF series # <<>> THEN series
                         ELSE Get(audible_metadata, "title", UnknownSeries))

book_folder_of(audible_metadata) ==
    LET title_clean == sanitize_filename(Get(audible_metadata, "title", UnknownTitle))
        book_number == Get(audible_metadata, "book_number", 0)
        release_year == extract_year(Get(audible_metadata, "year", <<>>))
        book_num_prefix == IF book_number # 0 THEN Digits(book_number) \o <<"-">> ELSE <<>>
        year_suffix == IF release_year # <<>>
                       THEN <<" ", "(">> \o release_year \o <<")">> ELSE <<>>
    IN book_num_prefix \o title_clean \o year_suffix

\* a path generator that numbers the file of a single-file work too
audiobook_paths_always_parts(audible_metadata, original_paths) ==
    LET title_clean == sanitize_filename(Get(audible_metadata, "title", UnknownTitle))
        folder == series_folder_of(audible_metadata) \o <<"/">>
                     \o book_folder_of(audible_metadata) \o <<"/">>
    IN [organized_paths |->
            [i \in DOMAIN original_paths |->
                folder \o title_clean \o <<" ", "[", "P", "a", "r", "t", " ">> \o Pad2(i) \o <<"]">>
                       \o Suffix(original_paths[i])],
        series_folder |-> series_folder_of(audible_metadata),
        book_folder |-> book_folder_of(audible_metadata),
        is_multi_part |-> Len(original_paths) > 1,
        part_count |-> Len(original_paths)]

\* generate_audiobook_paths on text: the organized paths and the folder
\* structure for one suggestion and the original paths of a work
audiobook_paths(audible_metadata, original_paths) ==
    LET title_clean == sanitize_filename(Get(audible_metadata, "title", UnknownTitle))
        folder == series_folder_of(audible_metadata) \o <<"/">>
                     \o book_folder_of(audible_metadata) \o <<"/">>
        num_files == Len(original_paths)
    IN [organized_paths |->
            IF num_files = 1
            THEN <<folder \o title_clean \o Suffix(original_paths[1])>>
            ELSE [i \in DOMAIN original_paths |->
                    folder \o title_clean \o <<" ", "[", "P", "a", "r", "t", " ">> \o Pad2(i) \o <<"]">>
                           \o Suffix(original_paths[i])],
        series_folder |-> series_folder_of(audible_metadata),
        book_folder |-> book_folder_of(audible_metadata),
        is_multi_part |-> num_files > 1,
        part_count |-> num_files]

\* ---- inputs of the path generator ----
MaxParts == 2      \* every list of 1..MaxParts file names is an input
LongParts == 11    \* one work of LongParts files is an input too

PathOfDaggers == <<"P", "a", "t", "h", ":", " ", "O", "f", " ", "D", "a", "g", "g", "e", "r", "s", "?">>

TitleInputs == {PathOfDaggers, <<"a">>, <<"a", " ", " ", "b", ".", " ">>, <<"?">>}

SeriesInputs == {<<>>, <<"S", "/", "1">>}

YearInputs == {<<>>, <<"2", "0", "0", "1">>, <<"c", "1", "9", "9", "9", "-", "0", "5">>, <<"9", "9">>}

BookNumberInputs == {0, 7, 12}

FileInputs == {<<"A", "/", "f", "1", ".", "m", "p", "3">>, <<"A", ".", "b", "/", "f", "2", ".", "x", ".", "m", "4", "b">>, <<"n", "o", "e", "x", "t">>}

\* the suggestion as a dict: the keys present, in one insertion order
MetadataInputs ==
    LET items == {<< <<"title", t>>, <<"series", sr>>, <<"book_number", b>>, <<"year", y>> >> :
                     t \in TitleInputs, sr \in SeriesInputs,
                     b \in BookNumberInputs, y \in YearInputs}
        keep(d, K) == SelectSeq(d, LAMBDA kv : kv[1] \in K)
        dicts == {keep(d, K) : d \in items,
                     K \in {{"title", "series", "book_number", "year"}, {"title", "year"},
                            {"title"}, {"series"}}}
        reversed(d) == [i \in DOMAIN d |-> d[Len(d) + 1 - i]]
    IN dicts \cup {reversed(d) : d \in dicts}

OriginalPathInputs ==
    UNION {[1..n -> FileInputs] : n \in 1..MaxParts}
        \cup {[i \in 1..LongParts |-> IF i % 2 = 0 THEN <<"A", "/", "f", "1", ".", "m", "p", "3">> ELSE <<"A", ".", "b", "/", "f", "2", ".", "x", ".", "m", "4", "b">>]}

\* a call of generate_audiobook_paths
GenerateAudiobookPaths(audible_metadata, original_paths) ==
    /\ org.pc = "idle"
    /\ result' = [op |-> "paths", audible_metadata |-> audible_metadata,
                  original_paths |-> original_paths,
                  value |-> audiobook_paths(audible_metadata, original_paths)]
    /\ UNCHANGED <<sse, sep, watcher, extras, fs, dirs, dest, records, covers, summary, catalog, nextId, clock, env, org>>

\* ---- organize on text: the transfers of one run ----
\* "for orig_path, org_path in zip(original_paths, organized_paths)" of one
\* accepted work: the source and the destination of each copy or move
work_transfers(work) ==
    LET organized_paths ==
            audiobook_paths(work.selected_audible, work.original_paths).organized_paths
    IN [i \in DOMAIN work.original_paths |->
           [source |-> work.original_paths[i], dest |-> organized_paths[i]]]

\* "for audiobook_data in accepted_audiobooks": the transfers of the run in
\* the order they are made
RECURSIVE organize_transfers(_)
organize_transfers(works) ==
    IF works = <<>> THEN <<>>
    ELSE work_transfers(Head(works)) \o organize_transfers(Tail(works))

\* the selected suggestions: two of them are the same book of the catalog
TransferMetadataInputs ==
    {<< <<"title", <<"a">> >> >>, << <<"title", <<"?">> >> >>,
     << <<"title", <<"a">> >>, <<"year", <<"2", "0", "0", "1">> >> >>,
     << <<"title", <<"a">> >>, <<"series", <<"S", "/", "1">> >> >>}

\* the files of a work lie in one folder; works lie in different folders
TransferPathInputs ==
    {<< <<"A", "/", "f", "1", ".", "m", "p", "3">> >>,
     << <<"A", "/", "f", "1", ".", "m", "p", "3">>, <<"A", "/", "f", "2", ".", "m", "p", "3">> >>,
     << <<"B", "/", "f", "1", ".", "m", "p", "3">> >>,
     << <<"B", "/", "f", "1", ".", "m", "4", "b">> >>,
     << <<"B", "/", "f", "1", ".", "m", "p", "3">>, <<"B", "/", "f", "2", ".", "m", "p", "3">> >>}

TransferWorkInputs ==
    {[selected_audible |-> m, original_paths |-> p] :
        m \in TransferMetadataInputs, p \in TransferPathInputs}

\* one or two accepted works, of different folders
TransferRunInputs ==
    {<<w>> : w \in TransferWorkInputs}
        \cup {<<v, w>> : v \in {x \in TransferWorkInputs : x.original_paths[1][1] = "A"},
                         w \in {x \in TransferWorkInputs : x.original_paths[1][1] = "B"}}

\* the file loop of an organize run over the given accepted works
OrganizeTransfers(works) ==
    /\ org.pc = "idle"
    /\ result' = [op |-> "transfers", works |-> works, value |-> organize_transfers(works)]
    /\ UNCHANGED <<sse, sep, watcher, extras, fs, dirs, dest, records, covers, summary, catalog, nextId, clock, env, org>>

\* ---- audible_service.py: scoring and ranking ----
UpperLetters == <<"A", "B", "C", "D", "E", "F", "G", "H", "I", "J", "K", "L", "M", "N", "O", "P", "Q", "R", "S", "T", "U", "V", "W", "X", "Y", "Z">>

LowerLetters == <<"a", "b", "c", "d", "e", "f", "g", "h", "i", "j", "k", "l", "m", "n", "o", "p", "q", "r", "s", "t", "u", "v", "w", "x", "y", "z">>

\* str.lower()
Lower(text) ==
    [i \in DOMAIN text |->
        IF \E k \in 1..26 : UpperLetters[k] = text[i]
        THEN LowerLetters[CHOOSE k \in 1..26 : UpperLetters[k] = text[i]]
        ELSE text[i]]

\* difflib.SequenceMatcher(None, a, b): the number of matching characters, found
\* by taking the longest common block (the earliest in a, then the earliest in
\* b) and matching the pieces to its left and to its right in the same way
RECURSIVE Matches(_, _)
Matches(a, b) ==
    IF a = <<>> \/ b = <<>> THEN 0
    ELSE LET blocks == {x \in (1..Len(a)) \X (1..Len(b)) \X (1..Len(a)) :
                           /\ x[1] + x[3] - 1 <= Len(a)
                           /\ x[2] + x[3] - 1 <= Len(b)
                           /\ SubSeq(a, x[1], x[1] + x[3] - 1) = SubSeq(b, x[2], x[2] + x[3] - 1)}
         IN IF blocks = {} THEN 0
            ELSE LET best == CHOOSE x \in blocks : \A y \in blocks :
                                \/ x[3] > y[3]
                                \/ x[3] = y[3] /\ x[1] < y[1]
                                \/ x[3] = y[3] /\ x[1] = y[1] /\ x[2] <= y[2]
                 IN best[3]
                    + Matches(SubSeq(a, 1, best[1] - 1), SubSeq(b, 1, best[2] - 1))
                    + Matches(SubSeq(a, best[1] + best[3], Len(a)),
                              SubSeq(b, best[2] + best[3], Len(b)))

\* SequenceMatcher.ratio() = 2 * matches / (len(a) + len(b)), as the fraction <<p, q>>
Ratio(a, b) == <<2 * Matches(a, b), Len(a) + Len(b)>>

RECURSIVE GCD(_, _)
GCD(m, n) == IF n = 0 THEN m ELSE GCD(n, m % n)

\* the fraction num/den in lowest terms
Fraction(num, den) ==
    [raised |-> FALSE, num |-> num \div GCD(num, den), den |-> den \div GCD(num, den)]

\* the weighted sum of fractions terms[i] = <<weight, p, q>> over the sum of
\* the weights, as one fraction num/den; weights are in hundredths
RECURSIVE ProductOfDenominators(_)
ProductOfDenominators(terms) ==
    IF terms = <<>> THEN 1 ELSE Head(terms)[3] * ProductOfDenominators(Tail(terms))

RECURSIVE WeightedSum(_, _)
WeightedSum(terms, Q) ==
    IF terms = <<>> THEN 0
    ELSE Head(terms)[1] * Head(terms)[2] * (Q \div Head(terms)[3]) + WeightedSum(Tail(terms), Q)

RECURSIVE TotalWeight(_)
TotalWeight(terms) == IF terms = <<>> THEN 0 ELSE Head(terms)[1] + TotalWeight(Tail(terms))

\* calculate_match_score(audible_meta, local_meta): the score as the fraction
\* num/den, or raised when "audible_meta.get('authors', [{}])[0]" indexes an
\* empty list
calculate_match_score(audible_meta, local_meta) ==
    IF audible_meta.has_authors /\ audible_meta.authors = <<>>
    THEN [raised |-> TRUE, num |-> 0, den |-> 1]
    ELSE
    LET local_title == Lower(local_meta.title)
        audible_title == Lower(audible_meta.title)
        local_author == Lower(local_meta.author)
        first_name == IF audible_meta.has_authors THEN audible_meta.authors[1] ELSE <<>>
        audible_author == Lower(IF first_name # <<>> THEN first_name ELSE audible_meta.author)
        local_runtime == local_meta.runtime_length_min
        audible_runtime == audible_meta.runtime_length_min
        asin_term == IF local_meta.asin # <<>> /\ audible_meta.asin # <<>>
                     THEN << <<40, IF Lower(local_meta.asin) = Lower(audible_meta.asin)
                                   THEN 1 ELSE 0, 1>> >>
                     ELSE <<>>
        title_term == IF local_title # <<>> /\ audible_title # <<>>
                      THEN << <<30, Ratio(local_title, audible_title)[1],
                                Ratio(local_title, audible_title)[2]>> >>
                      ELSE <<>>
        author_term == IF local_author # <<>> /\ audible_author # <<>>
                       THEN << <<20, Ratio(local_author, audible_author)[1],
                                 Ratio(local_author, audible_author)[2]>> >>
                       ELSE <<>>
        larger == IF local_runtime >= audible_runtime THEN local_runtime ELSE audible_runtime
        diff == IF local_runtime >= audible_runtime THEN local_runtime - audible_runtime
                ELSE audible_runtime - local_runtime
        runtime_term == IF local_runtime # 0 /\ audible_runtime # 0
                        THEN << <<25, IF larger - diff > 0 THEN larger - diff ELSE 0, larger>> >>
                        ELSE <<>>
        terms == asin_term \o title_term \o author_term \o runtime_term
        Q == ProductOfDenominators(terms)
    IN IF terms = <<>> THEN [raised |-> FALSE, num |-> 0, den |-> 1]
       ELSE Fraction(WeightedSum(terms, Q), TotalWeight(terms) * Q)

\* ---- inputs of the score ----
LocalInputs ==
    [asin : {<<>>, <<"B", "1">>}, title : {<<>>, <<"a", "b">>}, author : {<<>>, <<"x">>},
     runtime_length_min : {0, 60}]

CandidateInputs ==
    [asin : {<<>>, <<"B", "1">>, <<"b", "1">>, <<"B", "2">>}, title : {<<>>, <<"a", "b">>, <<"A", "b">>, <<"a", "c">>},
     has_authors : BOOLEAN, authors : {<<>>, <<<<"x">>>>, <<<<"y">>>>}, author : {<<>>, <<"x">>},
     runtime_length_min : {0, 60, 90}]

\* a call of calculate_match_score
CalculateMatchScore(audible_meta, local_meta) ==
    /\ org.pc = "idle"
    /\ result' = [op |-> "score", audible_meta |-> audible_meta, local_meta |-> local_meta,
                  value |-> calculate_match_score(audible_meta, local_meta)]
    /\ UNCHANGED <<sse, sep, watcher, extras, fs, dirs, dest, records, covers, summary, catalog, nextId, clock, env, org>>

\* ---- audible_service.py: ranking and the suggestion list ----
\* x[1] >= y[1] for scored results x, y (scores are fractions)
ScoreAtLeast(x, y) == x.num * y.den >= y.num * x.den

\* list.sort(key=score, reverse=True) is stable: an entry goes behind every
\* entry that scores at least as much
RECURSIVE InsertByScore(_, _)
InsertByScore(s, x) ==
    IF s = <<>> THEN <<x>>
    ELSE IF ScoreAtLeast(Head(s).score, x.score) THEN <<Head(s)>> \o InsertByScore(Tail(s), x)
    ELSE <<x>> \o s

RECURSIVE SortByScore(_)
SortByScore(s) ==
    IF s = <<>> THEN <<>>
    ELSE InsertByScore(SortByScore(SubSeq(s, 1, Len(s) - 1)), s[Len(s)])

\* the scored results in the order of the search results
scored_results(results, local_meta) ==
    [i \in 1..Len(results) |->
        [meta |-> results[i], score |-> calculate_match_score(results[i], local_meta),
         source |-> i]]

\* a ranking that leaves the results in the order of the search
rank_search_results_unsorted(results, local_meta) == scored_results(results, local_meta)

\* rank_search_results(results, local_meta); source is the position in results
rank_search_results(results, local_meta) == SortByScore(scored_results(results, local_meta))

\* enhance_audiobook_metadata, after the search returned search_results
enhance_audiobook_metadata(search_results, local_metadata) ==
    IF search_results = <<>>
    THEN [raised |-> FALSE, audible_enhanced |-> FALSE, audible_suggestions |-> <<>>,
          selected_audible_id |-> 0, message |-> "No Audible results found"]
    ELSE IF \E i \in 1..Len(search_results) :
                calculate_match_score(search_results[i], local_metadata).raised
    THEN [raised |-> TRUE, audible_enhanced |-> FALSE, audible_suggestions |-> <<>>,
          selected_audible_id |-> 0, message |-> ""]
    ELSE LET ranked_results == rank_search_results(search_results, local_metadata)
             n == IF Len(ranked_results) > TopN THEN TopN ELSE Len(ranked_results)
         IN [raised |-> FALSE, audible_enhanced |-> TRUE,
             audible_suggestions |->
                 [i \in 1..n |-> [id |-> i, match_score |-> ranked_results[i].score,
                                  meta |-> ranked_results[i].meta,
                                  source |-> ranked_results[i].source]],
             selected_audible_id |-> 1, message |-> "Found ranked suggestions"]

\* ---- inputs of the ranking ----
MaxResults == 3

LongResults == 11

RankLocal == [asin |-> <<"B", "1">>, title |-> <<"a", "b">>, author |-> <<>>, runtime_length_min |-> 0]

Candidate(asin, title, has_authors) ==
    [asin |-> asin, title |-> title, has_authors |-> has_authors, authors |-> <<>>,
     author |-> <<>>, runtime_length_min |-> 0]

RankCandidates ==
    << Candidate(<<"B", "1">>, <<"a", "b">>, FALSE), Candidate(<<"B", "2">>, <<"A", "b">>, FALSE), Candidate(<<>>, <<"a", "c">>, FALSE),
       Candidate(<<>>, <<"A", "b">>, FALSE), Candidate(<<"B", "2">>, <<"a", "b">>, FALSE), Candidate(<<>>, <<"a", "b">>, TRUE) >>

SearchResultInputs ==
    UNION {[1..n -> {RankCandidates[k] : k \in 1..5}] : n \in 0..MaxResults}
    \cup {[i \in 1..n |-> RankCandidates[((i * k) % 5) + 1]] : n \in LongResults..(LongResults + 1), k \in 1..4}
    \cup {<<RankCandidates[1], RankCandidates[6]>>}

\* a call of enhance_audiobook_metadata whose search returned search_results
EnhanceAudiobookMetadata(search_results, local_metadata) ==
    /\ org.pc = "idle"
    /\ result' = [op |-> "enhanced", search_results |-> search_results,
                  local_metadata |-> local_metadata,
                  value |-> enhance_audiobook_metadata(search_results, local_metadata)]
    /\ UNCHANGED <<sse, sep, watcher, extras, fs, dirs, dest, records, covers, summary, catalog, nextId, clock, env, org>>

\* ---- audible_service.py: search_audible ----
IsLetter(c) == (\E k \in 1..26 : UpperLetters[k] = c) \/ (\E k \in 1..26 : LowerLetters[k] = c)

\* re.sub(r'[^a-zA-Z ]+', ' ', s): every run of other characters becomes one space
RECURSIVE SubNonLetters(_)
SubNonLetters(text) ==
    IF text = <<>> THEN <<>>
    ELSE IF IsLetter(Head(text)) \/ Head(text) = " "
    THEN <<Head(text)>> \o SubNonLetters(Tail(text))
    ELSE IF Len(text) > 1 /\ ~(IsLetter(text[2]) \/ text[2] = " ")
    THEN SubNonLetters(Tail(text))
    ELSE <<" ">> \o SubNonLetters(Tail(text))

clean_query(s) == IF s = <<>> THEN <<>> ELSE Strip(SubNonLetters(s))

\* Path(filename).parent.name of a '/'-separated path; it is never '.', so the
\* stem is never used
parent_name(filename) ==
    LET i == LastIndex(filename, "/")
    IN IF i = 0 THEN <<>> ELSE NameOf(RStrip(SubSeq(filename, 1, i - 1), {"/"}))

\* the list search_queries that search_audible builds
search_queries(query_data) ==
    LET asin == query_data.asin
        title == query_data.title
        author == query_data.author
        filename == query_data.filename
        title_author == clean_query(title) \o <<" ">> \o clean_query(author)
    IN (IF asin # <<>> THEN << <<"asin", asin>> >> ELSE <<>>)
       \o (IF title # <<>> /\ author # <<>> /\ Strip(title_author) # <<>>
           THEN << <<"title_author", title_author>> >> ELSE <<>>)
       \o (IF title # <<>> /\ Strip(clean_query(title)) # <<>>
           THEN << <<"title", clean_query(title)>> >> ELSE <<>>)
       \o (IF filename # <<>> /\ Strip(clean_query(parent_name(filename))) # <<>>
           THEN << <<"folder_name", clean_query(parent_name(filename))>> >> ELSE <<>>)

\* run_audible_query(query_string): the products of the catalog for the
\* keywords, None (here <<>>) when there are none or the call fails
run_audible_query(query_string, products) ==
    IF query_string \in products THEN <<[keywords |-> query_string]>> ELSE <<>>

\* a search that runs every query and returns the first result
search_audible_running_all(query_data, products) ==
    LET queries == search_queries(query_data)
        hit == {k \in 1..Len(queries) : run_audible_query(queries[k][2], products) # <<>>}
    IN [issued |-> queries,
        results |-> IF hit = {} THEN <<>>
                    ELSE run_audible_query(queries[CHOOSE k \in hit : \A m \in hit : k <= m][2], products)]

\* search_audible(query_data) against a catalog that has products for the
\* keyword strings in products: the queries issued and the value returned
search_audible(query_data, products) ==
    LET queries == search_queries(query_data)
        hit == {k \in 1..Len(queries) : run_audible_query(queries[k][2], products) # <<>>}
        first == CHOOSE k \in hit : \A m \in hit : k <= m
    IN IF hit = {} THEN [issued |-> queries, results |-> <<>>]
       ELSE [issued |-> SubSeq(queries, 1, first),
             results |-> run_audible_query(queries[first][2], products)]

\* ---- inputs of the search ----
QueryInputs ==
    [asin : {<<>>, <<"B", "1">>}, title : {<<>>, <<"a", "1", "-", "b">>, <<"1", "2">>}, author : {<<>>, <<"x">>, <<"?">>},
     filename : {<<>>, <<"A", "/", "f", "1", ".", "m", "p", "3">>, <<"f", "1", ".", "m", "p", "3">>, <<"7", "/", "f", ".", "m", "p", "3">>, <<"/", "x", "/", "A", "/", "f", ".", "m", "p", "3">>}]

KeywordInputs == {<<"B", "1">>, <<"a", " ", "b", " ", "x">>, <<"a", " ", "b">>, <<"A">>, <<" ", "x">>}

\* a call of search_audible
SearchAudible(query_data, products) ==
    /\ org.pc = "idle"
    /\ result' = [op |-> "search", query_data |-> query_data, products |-> products,
                  value |-> search_audible(query_data, products)]
    /\ UNCHANGED <<sse, sep, watcher, extras, fs, dirs, dest, records, covers, summary, catalog, nextId, clock, env, org>>

\* ---- app.py: manual_audible_search ----
\* the search_data the handler builds from the operator's query
manual_search_data(search_query, original_metadata) ==
    [asin |-> <<>>, title |-> search_query, author |-> <<>>,
     filename |-> IF original_metadata.paths # <<>> THEN original_metadata.paths[1] ELSE <<>>]

\* the suggestion list built from ranked results: the first ten, numbered from 1
top_suggestions(ranked_results) ==
    [i \in 1..(IF Len(ranked_results) > TopN THEN TopN ELSE Len(ranked_results)) |->
        [id |-> i, match_score |-> ranked_results[i].score, meta |-> ranked_results[i].meta,
         source |-> ranked_results[i].source]]

\* manual_audible_search for an existing record; cat gives the products the
\* catalog returns for each keyword string
manual_audible_search(query, original_metadata, cat) ==
    LET search_query == Strip(query)
        found == search_audible(manual_search_data(search_query, original_metadata),
                                {k \in DOMAIN cat : cat[k] # <<>>})
        search_results == IF found.results = <<>> THEN <<>>
                          ELSE cat[found.results[1].keywords]
    IN IF search_query = <<>>
       THEN [status |-> 400, success |-> FALSE, issued |-> <<>>, search_results |-> <<>>,
             audible_suggestions |-> <<>>, selected_audible_id |-> 0]
       ELSE IF search_results = <<>>
       THEN [status |-> 200, success |-> FALSE, issued |-> found.issued,
             search_results |-> <<>>, audible_suggestions |-> <<>>, selected_audible_id |-> 0]
       ELSE [status |-> 200, success |-> TRUE, issued |-> found.issued,
             search_results |-> search_results,
             audible_suggestions |->
                 top_suggestions(rank_search_results(search_results, original_metadata)),
             selected_audible_id |-> 1]

\* ---- inputs of the manual search ----
ManualQueryInputs == {<<"a", "b">>, <<"1", "2">>, <<" ">>, <<" ", "a", "b", " ">>}

ManualOriginalInputs ==
    [asin : {<<>>, <<"B", "1">>}, title : {<<"a", "b">>}, author : {<<>>, <<"x">>}, runtime_length_min : {0},
     paths : {<<>>, <<<<"A", "/", "f", "1", ".", "m", "p", "3">>>>}]

ManualCandidates ==
    {Candidate(<<"B", "1">>, <<"a", "c">>, FALSE), Candidate(<<"B", "2">>, <<"a", "b">>, FALSE),
     [Candidate(<<>>, <<"a", "b">>, FALSE) EXCEPT !.author = <<"x">>]}

ManualCatalogInputs ==
    [{<<"a", "b">>, <<"A">>} -> {<<>>} \cup {<<c>> : c \in ManualCandidates}
                       \cup {<<c, d>> : c \in ManualCandidates, d \in ManualCandidates}]

\* a call of manual_audible_search
ManualAudibleSearch(query, original_metadata, cat) ==
    /\ org.pc = "idle"
    /\ result' = [op |-> "manual", query |-> query, original_metadata |-> original_metadata,
                  cat |-> cat, value |-> manual_audible_search(query, original_metadata, cat)]
    /\ UNCHANGED <<sse, sep, watcher, extras, fs, dirs, dest, records, covers, summary, catalog, nextId, clock, env, org>>

\* ---- organize (app.py organize_audiobooks) ----
\* a file loop that gives up on the work at the first file that fails
files_attempted_until_error(n, failed) == {i \in 1..n : \A j \in failed : i <= j}

\* "for orig_path, org_path in zip(original_paths, organized_paths)" with the
\* try/except inside the loop body: every index is attempted
files_attempted(n, failed) == 1..n

\* a transfer that moves in either mode
always_move(copy_only, F, done) ==
    [p \in AllPaths |-> IF p \in done THEN 0 ELSE F[p]]

\* shutil.copy2 leaves the source, shutil.move removes it
copy_or_move(copy_only, F, done) ==
    IF copy_only THEN F ELSE [p \in AllPaths |-> IF p \in done THEN 0 ELSE F[p]]

\* an eligibility test satisfied by any moved file
eligible_if_any_moved(copy_only, files_moved_successfully, total_files) ==
    ~copy_only /\ files_moved_successfully >= 1

\* "if not copy_only and files_moved_successfully == total_files"
eligible_for_cleanup(copy_only, files_moved_successfully, total_files) ==
    ~copy_only /\ files_moved_successfully = total_files

\* folder.iterdir(): the names in a folder, audio files included
folder_contents(F, X, f) == {<<"f", p[2]>> : p \in AudioIn(F, f)} \cup X[f]

\* f.name.startswith('.')
is_hidden(name) == name[1] = "."

\* "if not contents or all(f.name.startswith('.') for f in contents)"
looks_empty(contents) == contents = {} \/ \A e \in contents : is_hidden(e)

\* an rmdir that never removes anything
rmdir_never(contents) == FALSE

\* folder.rmdir(): succeeds on a directory without entries, raises OSError
\* (caught, "Folder not empty or other error, skip") on any other
rmdir_ok(contents) == contents = {}

\* a re-check that trusts the move
all_files_assumed_moved(R, F, r) == TRUE

\* "Verify all original files are actually gone"
all_files_moved(R, F, r) ==
    \A i \in DOMAIN R[r].paths : F[MediaFile(R[r].paths[i])] = 0

\* a selection that ignores the status
all_with_suggestions(R) == {r \in DOMAIN R : R[r].nsugg > 0}

\* "if audiobook_data.get('status') == 'accepted' and
\*  audiobook_data.get('audible_suggestions')"
accepted_audiobooks(R) == {r \in DOMAIN R : R[r].status = "accepted" /\ R[r].nsugg > 0}

\* request parsing and selection of the accepted records with suggestions
OrganizeStart(copy_only, cleanup_empty_folders, dest_ok) ==
    /\ org.pc = "idle"
    /\ LET accepted == accepted_audiobooks(records)
       IN IF accepted = {}
          THEN /\ org' = org
               /\ result' = [op |-> "organize", success |-> TRUE, processed |-> 0, errors |-> 0,
                             cleaned_folders |-> 0, cleaned_metadata |-> 0,
                             cleaned_covers |-> 0, call |-> org, retired |-> {}]
          ELSE /\ org' = [OrgIdle EXCEPT !.pc = "work", !.copy_only = copy_only,
                                         !.cleanup_empty_folders = cleanup_empty_folders,
                                         !.dest_ok = dest_ok,
                                         !.accepted = accepted,
                                         !.loaded = Restrict(records, accepted),
                                         !.todo = accepted]
               /\ result' = NoResult
    /\ UNCHANGED <<sse, sep, watcher, extras, fs, dirs, dest, records, covers, summary, catalog, nextId, clock, env>>

\* one iteration of "for audiobook_data in accepted_audiobooks"; fail is the set
\* of source files whose copy/move raises
OrganizeWork(r, fail) ==
    /\ org.pc = "work"
    /\ r \in org.todo
    /\ LET rec == org.loaded[r]
           selected_index == IF rec.selected # 0 THEN rec.selected - 1 ELSE 0
           path_result == generate_paths_for_audiobook(rec, selected_index)
           todo2 == org.todo \ {r}
           pc2 == IF todo2 = {} THEN "finish" ELSE "work"
       IN IF ~path_result.ok \/ ~org.dest_ok
          THEN /\ fail = {}
               /\ org' = [org EXCEPT !.todo = todo2, !.pc = pc2,
                                     !.error_count = @ + 1]
               /\ UNCHANGED <<fs, dest>>
          ELSE LET total_files == Len(path_result.original_paths)
                   src(i) == MediaFile(path_result.original_paths[i])
                   absent == {i \in 1..total_files : fs[src(i)] = 0}
                   failed == absent \cup {i \in 1..total_files : src(i) \in fail}
                   tried == files_attempted(total_files, failed)
                   done == tried \ failed
                   files_moved_successfully == Cardinality(done)
               IN /\ fail \subseteq {src(i) : i \in (1..total_files) \ absent}
                  /\ dest' = dest \cup {path_result.organized_paths[i] : i \in done}
                  /\ fs' = copy_or_move(org.copy_only, fs, {src(i) : i \in done})
                  /\ org' = [org EXCEPT
                        !.todo = todo2, !.pc = pc2,
                        !.source_folders_to_check = @ \cup {src(i)[1] : i \in tried},
                        !.attempted = @ \cup {<<r, src(i)>> : i \in tried},
                        !.missing = @ \cup {<<r, src(i)>> : i \in tried \cap absent},
                        !.moved = @ \cup {<<r, src(i)>> : i \in done},
                        !.error_count = @ + Cardinality(tried \cap failed),
                        !.successfully_organized =
                            IF eligible_for_cleanup(org.copy_only,
                                                    files_moved_successfully, total_files)
                            THEN @ \cup {r} ELSE @,
                        !.processed_count = @ + 1]
    /\ result' = NoResult
    /\ UNCHANGED <<sse, sep, watcher, extras, dirs, records, covers, summary, catalog, nextId, clock, env>>

\* the rest of the call: "Clean up empty source folders if requested", then
\* "Clean up metadata and covers for successfully moved audiobooks", then the
\* JSON response
OrganizeFinish ==
    /\ org.pc = "finish"
    /\ LET all_folders_to_check == org.source_folders_to_check
           removed == IF org.cleanup_empty_folders
                      THEN {f \in all_folders_to_check :
                               /\ f \in dirs
                               /\ looks_empty(folder_contents(fs, extras, f))
                               /\ rmdir_ok(folder_contents(fs, extras, f))}
                      ELSE {}
           retire == IF org.copy_only THEN {}
                     ELSE {r \in org.successfully_organized :
                              all_files_moved(org.loaded, fs, r)}
           cleaned_metadata == retire \cap DOMAIN records
           cleaned_covers == retire \cap covers
       IN /\ dirs' = dirs \ removed
          /\ records' = Restrict(records, DOMAIN records \ retire)
          /\ covers' = covers \ retire
          /\ result' = [op |-> "organize", success |-> TRUE, processed |-> org.processed_count,
                        errors |-> org.error_count,
                        cleaned_folders |-> Cardinality(removed),
                        cleaned_metadata |-> Cardinality(cleaned_metadata),
                        cleaned_covers |-> Cardinality(cleaned_covers),
                        call |-> org, retired |-> retire]
    /\ org' = OrgIdle
    /\ UNCHANGED <<sse, sep, watcher, extras, fs, dest, summary, catalog, nextId, clock, env>>

\* ---- organize: cleanup of nested source folders (app.py 899-927) ----
\* folders as absolute paths, sequences of names; the file system root is <<>>
MEDIA_ROOT == <<"m">>

NestedFolders ==
    {<<"m", "A">>, <<"m", "A", "B">>, <<"m", "A", "B", "C">>, <<"m", "A", "D">>, <<"m", "E">>}

\* Path.parent: the root is its own parent
PathParent(folder) == IF folder = <<>> THEN <<>> ELSE SubSeq(folder, 1, Len(folder) - 1)

\* "while current and current != Path(MEDIA_ROOT) and current != current.parent"
RECURSIVE walk_up(_)
walk_up(current) ==
    IF current = MEDIA_ROOT \/ current = PathParent(current) THEN {}
    ELSE {current} \cup walk_up(PathParent(current))

\* a collection that checks the touched folders only
touched_folders_only(source_folders_to_check) == source_folders_to_check

\* all_folders_to_check: the touched folders and their parents up to MEDIA_ROOT
all_folders_to_check(source_folders_to_check) ==
    UNION {walk_up(folder) : folder \in source_folders_to_check}

\* folder.iterdir() in a tree: the entries of the folder and its subfolders
nested_contents(D, X, folder) ==
    X[folder] \cup {<<"d", g[Len(g)]>> : g \in {h \in D : h # <<>> /\ PathParent(h) = folder}}

\* the loop over sorted_folders (deepest first, key len(x.parts)): the folders
\* that remain after the folders of the given depth and above were tried
RECURSIVE remove_from_depth(_, _, _, _)
remove_from_depth(D, X, check, depth) ==
    IF depth = 0 THEN D
    ELSE LET gone == {folder \in check :
                         /\ Len(folder) = depth
                         /\ folder \in D
                         /\ looks_empty(nested_contents(D, X, folder))
                         /\ rmdir_ok(nested_contents(D, X, folder))}
         IN remove_from_depth(D \ gone, X, check, depth - 1)

cleanup_empty_folders(D, X, source_folders_to_check) ==
    LET check == all_folders_to_check(source_folders_to_check)
        deepest == Max({0} \cup {Len(folder) : folder \in check})
    IN remove_from_depth(D, X, check, deepest)

\* the folder cleanup of one organize call over a tree of source folders
CleanupEmptyFolders(X, source_folders_to_check) ==
    /\ org.pc = "idle"
    /\ LET D == NestedFolders \cup {MEDIA_ROOT}
           remaining == cleanup_empty_folders(D, X, source_folders_to_check)
       IN result' = [op |-> "foldercleanup", entries |-> X,
                     source_folders_to_check |-> source_folders_to_check,
                     remaining |-> remaining, cleaned_folders |-> Cardinality(D \ remaining)]
    /\ UNCHANGED <<sse, sep, watcher, extras, fs, dirs, dest, records, covers, summary, catalog, nextId, clock, env, org>>

\* the entries left in the folders after the files were moved
NestedEntryInputs ==
    [NestedFolders \cup {MEDIA_ROOT} -> {{}, {<<".", "nfo">>}, {<<"n", "otes.txt">>}}]

\* ---- polling_watcher.py: the watcher thread ----
\* _check_for_changes: a new, modified or deleted audio file triggers a rescan;
\* known_files becomes the current listing
WatcherCheckForChanges ==
    /\ watcher.pc = "sleep"
    /\ LET changes_detected == \E p \in AllPaths : watcher.known_files[p] # fs[p]
       IN watcher' = [watcher EXCEPT !.known_files = fs,
                                     !.pc = IF changes_detected THEN "rescan" ELSE "sleep"]
    /\ result' = NoResult
    /\ UNCHANGED <<sse, sep, extras, fs, dirs, dest, records, covers, summary, catalog, nextId, clock, env, org>>

\* _trigger_rescan, "folders_to_scan, current_folders = tracker.get_folders_to_scan()"
WatcherGetFoldersToScan ==
    /\ watcher.pc = "rescan"
    /\ watcher' = [watcher EXCEPT !.folders_to_scan = get_folders_to_scan(summary, fs),
                                  !.current_folders = get_current_folders(fs),
                                  !.pc = "process"]
    /\ result' = NoResult
    /\ UNCHANGED <<sse, sep, extras, fs, dirs, dest, records, covers, summary, catalog, nextId, clock, env, org>>

\* _trigger_rescan, "process_specific_folders(media_root, folders_to_scan)"
WatcherProcessFolders ==
    /\ watcher.pc = "process"
    /\ LET todo == SelectIn(FolderSeq, {f \in watcher.folders_to_scan :
                                           f \in dirs /\ AudioIn(fs, f) # {}})
           count == Len(todo)
           built == [i \in 1..count |->
                        build_audiobook_metadata(FolderGroup(fs, todo[i]), catalog, clock)]
           R2 == write_records(records, nextId, built)
       IN /\ nextId + count - 1 <= MaxId
          /\ records' = R2
          /\ covers' = covers \cup {r \in nextId..(nextId + count - 1) : R2[r].cover}
          /\ nextId' = nextId + count
          /\ watcher' = [watcher EXCEPT !.count = count, !.pc = "track"]
    /\ result' = NoResult
    /\ UNCHANGED <<sse, sep, extras, fs, dirs, dest, summary, catalog, clock, env, org>>

\* _trigger_rescan, "tracker.update_tracking_after_scan(count)"
WatcherUpdateTracking ==
    /\ watcher.pc = "track"
    /\ summary' = update_tracking_after_scan(summary, records, fs, clock)
    /\ watcher' = [watcher EXCEPT !.pc = "cleanup"]
    /\ result' = NoResult
    /\ UNCHANGED <<sse, sep, extras, fs, dirs, dest, records, covers, catalog, nextId, clock, env, org>>

\* _trigger_rescan, "tracker.cleanup_orphaned_data(dry_run=False)", and the
\* return to the poll loop
WatcherCleanup ==
    /\ watcher.pc = "cleanup"
    /\ LET found == find_orphaned_metadata(summary, records, covers, fs)
       IN /\ records' = Restrict(records, DOMAIN records \ found.metadata)
          /\ covers' = covers \ found.covers
    /\ watcher' = [watcher EXCEPT !.pc = "sleep", !.folders_to_scan = {},
                                  !.current_folders = <<>>, !.count = 0]
    /\ result' = NoResult
    /\ UNCHANGED <<sse, sep, extras, fs, dirs, dest, summary, catalog, nextId, clock, env, org>>

Next ==
    \/ \E p \in AllPaths, t \in 1..MaxTime : WriteFile(p, t)
    \/ \E p \in AllPaths : DeleteFile(p)
    \/ Tick
    \/ \E c \in 0..MaxCand : CatalogChange(c)
    \/ \E full \in BOOLEAN : ScanLibrary(full)
    \/ \E r \in 1..MaxId, st \in StatusInputs : UpdateStatus(r, st)
    \/ GetFoldersToScan
    \/ FindOrphaned
    \/ \E dry_run \in BOOLEAN : CleanupOrphaned(dry_run)
    \/ GetScanReport
    \/ \E r \in 1..MaxId, v \in SelectInputs : SelectAudible(r, v)
    \/ \E r \in 1..MaxId : EnhanceWithAudible(r)
    \/ \E force \in BOOLEAN : BulkEnhance(force)
    \/ \E c \in BOOLEAN, k \in BOOLEAN, d \in BOOLEAN : OrganizeStart(c, k, d)
    \/ \E r \in 1..MaxId, fail \in SUBSET AllPaths : OrganizeWork(r, fail)
    \/ OrganizeFinish
    \/ \E m \in MetadataInputs, p \in OriginalPathInputs : GenerateAudiobookPaths(m, p)
    \/ \E r \in 1..MaxId : GeneratePathsEndpoint(r)
    \/ \E a \in CandidateInputs, l \in LocalInputs : CalculateMatchScore(a, l)
    \/ \E s \in SearchResultInputs : EnhanceAudiobookMetadata(s, RankLocal)
    \/ \E q \in QueryInputs, p \in SUBSET KeywordInputs : SearchAudible(q, p)
    \/ WatcherCheckForChanges
    \/ WatcherGetFoldersToScan
    \/ WatcherProcessFolders
    \/ WatcherUpdateTracking
    \/ WatcherCleanup
    \/ \E X \in NestedEntryInputs, t \in SUBSET (NestedFolders \cup {MEDIA_ROOT}) :
          CleanupEmptyFolders(X, t)
    \/ \E q \in ManualQueryInputs, o \in ManualOriginalInputs, c \in ManualCatalogInputs :
          ManualAudibleSearch(q, o, c)
    \/ \E full \in BOOLEAN, u \in SUBSET AllPaths, g \in SUBSET Folders :
          ScanLibraryWith(full, u, g)
    \/ \E r \in 1..MaxId, found \in 0..MaxCand : ManualSearch(r, found)
    \/ \E works \in TransferRunInputs : OrganizeTransfers(works)
    \/ NotifyChange
    \/ EventStreamPoll

Spec == Init /\ [][Next]_vars

\* ---- the scan and change-detection part of the machine ----
InitScan == Init /\ sep = "/" /\ \A f \in Folders : extras[f] = {}

NextScan ==
    \/ \E p \in AllPaths, t \in 1..MaxTime : WriteFile(p, t)
    \/ \E p \in AllPaths : DeleteFile(p)
    \/ \E c \in 0..MaxCand : CatalogChange(c)
    \/ \E full \in BOOLEAN : ScanLibrary(full)
    \/ GetFoldersToScan

SpecScan == InitScan /\ [][NextScan]_vars

\* ---- the orphan detection and cleanup part of the machine ----
InitTracker ==
    Init /\ catalog = 0 /\ (\A p \in AllPaths : fs[p] <= 1) /\ \A f \in Folders : extras[f] = {}

NextTracker ==
    \/ \E p \in AllPaths : WriteFile(p, 1)
    \/ \E p \in AllPaths : DeleteFile(p)
    \/ Tick
    \/ \E full \in BOOLEAN : ScanLibrary(full)
    \/ FindOrphaned
    \/ \E dry_run \in BOOLEAN : CleanupOrphaned(dry_run)

SpecTracker == InitTracker /\ [][NextTracker]_vars

\* ---- the organize part of the machine ----
InitOrganize ==
    /\ Init /\ sep = "/" /\ catalog <= 1
    /\ \A p \in AllPaths : fs[p] = 1
    /\ \A f \in Folders : extras[f] = {}

NextOrganize ==
    \/ \E p \in AllPaths : WriteFile(p, 1)
    \/ \E p \in AllPaths : DeleteFile(p)
    \/ ScanLibrary(TRUE)
    \/ \E r \in 1..MaxId : UpdateStatus(r, "accepted")
    \/ \E c \in BOOLEAN, k \in BOOLEAN, d \in BOOLEAN : OrganizeStart(c, k, d)
    \/ \E r \in 1..MaxId, fail \in SUBSET AllPaths : OrganizeWork(r, fail)
    \/ OrganizeFinish

SpecOrganize == InitOrganize /\ [][NextOrganize]_vars

\* ---- the tracker together with status, selection and enrichment ----
InitFrame ==
    /\ Init /\ sep = "\\" /\ catalog <= 1
    /\ \A p \in AllPaths : fs[p] <= 1
    /\ \A f \in Folders : extras[f] = {}

\* at most one change of the media tree in a behaviour
NextFrame ==
    \/ env = 0 /\ \E p \in AllPaths : DeleteFile(p)
    \/ \E full \in BOOLEAN : ScanLibrary(full)
    \/ GetFoldersToScan
    \/ FindOrphaned
    \/ \E dry_run \in BOOLEAN : CleanupOrphaned(dry_run)
    \/ GetScanReport
    \/ \E r \in 1..MaxId : UpdateStatus(r, "accepted")
    \/ \E r \in 1..MaxId, i \in 0..1 : SelectAudible(r, JsonInt(i))
    \/ \E r \in 1..MaxId : EnhanceWithAudible(r)
    \/ \E force_refresh \in BOOLEAN : BulkEnhance(force_refresh)

SpecFrame == InitFrame /\ [][NextFrame]_vars

\* ---- selection, enrichment and organize ----
InitSelect ==
    /\ Init /\ sep = "/" /\ catalog <= 2
    /\ \A p \in AllPaths : fs[p] = 1
    /\ \A f \in Folders : extras[f] = {}

\* at most one change of the catalog in a behaviour
NextSelect ==
    \/ env = 0 /\ \E c \in 0..2 : CatalogChange(c)
    \/ ScanLibrary(TRUE)
    \/ \E r \in 1..MaxId : UpdateStatus(r, "accepted")
    \/ \E r \in 1..MaxId, v \in {JsonInt(0), JsonInt(1), JsonInt(2), JsonBool(TRUE), JsonString} :
          SelectAudible(r, v)
    \/ \E force_refresh \in BOOLEAN : BulkEnhance(force_refresh)
    \/ \E r \in 1..MaxId : GeneratePathsEndpoint(r)
    \/ \E c \in BOOLEAN : OrganizeStart(c, FALSE, TRUE)
    \/ \E r \in 1..MaxId : OrganizeWork(r, {})
    \/ OrganizeFinish

SpecSelect == InitSelect /\ [][NextSelect]_vars

\* ---- organize over source folders that hold other entries ----
InitFolders ==
    /\ Init /\ sep = "/" /\ catalog = 1
    /\ \A p \in AllPaths : fs[p] = 1

NextFolders ==
    \/ ScanLibrary(TRUE)
    \/ \E r \in 1..MaxId : UpdateStatus(r, "accepted")
    \/ \E c \in BOOLEAN, k \in BOOLEAN : OrganizeStart(c, k, TRUE)
    \/ \E r \in 1..MaxId, fail \in {{}, {<<"A", "f1">>}} : OrganizeWork(r, fail)
    \/ OrganizeFinish

SpecFolders == InitFolders /\ [][NextFolders]_vars

\* ---- the path generator alone ----
InitPaths ==
    /\ Init /\ sep = "/" /\ catalog = 0
    /\ \A p \in AllPaths : fs[p] = 0
    /\ \A f \in Folders : extras[f] = {}

\* one call in a behaviour
NextPaths ==
    /\ result = NoResult
    /\ \E m \in MetadataInputs, p \in OriginalPathInputs : GenerateAudiobookPaths(m, p)

SpecPaths == InitPaths /\ [][NextPaths]_vars

\* ---- the match score alone ----
\* one call in a behaviour
NextScore ==
    /\ result = NoResult
    /\ \E a \in CandidateInputs, l \in LocalInputs : CalculateMatchScore(a, l)

SpecScore == InitPaths /\ [][NextScore]_vars

\* ---- the ranking alone ----
\* one call in a behaviour
NextRank ==
    /\ result = NoResult
    /\ \E s \in SearchResultInputs : EnhanceAudiobookMetadata(s, RankLocal)

SpecRank == InitPaths /\ [][NextRank]_vars

\* ---- the search alone ----
\* one call in a behaviour
NextSearch ==
    /\ result = NoResult
    /\ \E q \in QueryInputs, p \in SUBSET KeywordInputs : SearchAudible(q, p)

SpecSearch == InitPaths /\ [][NextSearch]_vars

\* ---- the watcher thread beside the operator's scan and organize ----
InitWatch ==
    /\ Init /\ sep = "/" /\ catalog = 1
    /\ \A p \in AllPaths : fs[p] <= 1
    /\ \A f \in Folders : extras[f] = {}

\* at most one change of the media tree in a behaviour
NextWatch ==
    \/ env = 0 /\ \E p \in AllPaths : WriteFile(p, 1)
    \/ env = 0 /\ \E p \in AllPaths : DeleteFile(p)
    \/ ScanLibrary(TRUE)
    \/ \E r \in 1..MaxId : UpdateStatus(r, "accepted")
    \/ \E c \in BOOLEAN : OrganizeStart(c, TRUE, TRUE)
    \/ \E r \in 1..MaxId : OrganizeWork(r, {})
    \/ OrganizeFinish
    \/ WatcherCheckForChanges
    \/ WatcherGetFoldersToScan
    \/ WatcherProcessFolders
    \/ WatcherUpdateTracking
    \/ WatcherCleanup

SpecWatch == InitWatch /\ [][NextWatch]_vars

\* ---- the folder cleanup over nested folders alone ----
\* one call in a behaviour; the media root keeps an entry or not
NextNested ==
    /\ result = NoResult
    /\ \E X \in NestedEntryInputs, t \in SUBSET (NestedFolders \cup {MEDIA_ROOT}) :
          /\ X[MEDIA_ROOT] # {<<".", "nfo">>}
          /\ CleanupEmptyFolders(X, t)

SpecNested == InitPaths /\ [][NextNested]_vars

\* ---- the manual search alone ----
\* one call in a behaviour
NextManual ==
    /\ result = NoResult
    /\ \E q \in ManualQueryInputs, o \in ManualOriginalInputs, c \in ManualCatalogInputs :
          ManualAudibleSearch(q, o, c)

SpecManual == InitPaths /\ [][NextManual]_vars

\* ==== properties of organize (SpecOrganize) ====

C2_CopyModeKeepsEverything ==
    [][(org.pc # "idle" /\ org.copy_only /\ org' # org) =>
         (records' = records /\ covers' = covers /\ fs' = fs)]_vars

\* C2 witness: a copy-mode call has returned with one work copied fully and
\* another copied in part, and every selected record, cover and source is there
C2_Witness ==
    /\ result.op = "organize"
    /\ result.call.copy_only
    /\ result.errors > 0
    /\ \E q \in result.call.accepted, r \in result.call.accepted :
          /\ \E x \in result.call.moved : x[1] = q
          /\ \E x \in result.call.attempted \ result.call.moved : x[1] = q
          /\ \A x \in result.call.attempted : x[1] = r => x \in result.call.moved
          /\ \E x \in result.call.moved : x[1] = r
    /\ result.call.accepted \subseteq DOMAIN records
    /\ result.call.accepted \subseteq covers
    /\ \A x \in result.call.moved : fs[x[2]] # 0

\* C3: organize deletes records and covers only in its last step, after every
\* work has been processed, and there it keeps the record and the cover of any
\* work one of whose original paths exists in the media tree at that moment.
C3_RecheckBeforeDelete ==
    [][/\ org.pc = "work" => (records' = records /\ covers' = covers)
       /\ (org.pc = "finish" /\ org' # org) =>
             \A r \in DOMAIN records :
                (\E i \in DOMAIN records[r].paths : fs[MediaFile(records[r].paths[i])] # 0)
                   => (r \in DOMAIN records' /\ (r \in covers => r \in covers'))]_vars

\* C3 witness: a move-mode call has returned that had marked a work eligible
\* (all its files moved) and yet kept its record and cover, because one of its
\* original files existed again at the final check
C3_Witness ==
    /\ result.op = "organize"
    /\ \E r \in result.call.successfully_organized :
          /\ r \notin result.retired
          /\ r \in DOMAIN records
          /\ r \in covers
          /\ \E i \in DOMAIN records[r].paths : fs[MediaFile(records[r].paths[i])] # 0

\* C4: a missing source file or a failing transfer is counted as one error and
\* stops nothing: when the call returns, every file of every selected work has
\* been attempted, and the response carries the aggregate counts (one error per
\* file not transferred, one per work that could not be started).
C4_FailuresAreIsolated ==
    [][(org.pc = "finish" /\ org' # org) =>
         LET selIndex(r) == IF records[r].selected # 0 THEN records[r].selected - 1 ELSE 0
             startable == {r \in org.accepted :
                              org.dest_ok /\ selIndex(r) < records[r].nsugg}
         IN /\ \A r \in startable : \A i \in DOMAIN records[r].paths :
                  <<r, MediaFile(records[r].paths[i])>> \in org.attempted
            /\ org.missing \subseteq org.attempted \ org.moved
            /\ result'.op = "organize"
            /\ result'.errors = Cardinality(org.attempted \ org.moved)
                                  + Cardinality(org.accepted \ startable)
            /\ result'.processed = Cardinality(startable)]_vars

\* C4 witness: a call has returned in which the first file of a 2-file work was
\* missing, its second file was still transferred, and the other selected work
\* was transferred too
C4_Witness ==
    /\ result.op = "organize"
    /\ result.processed = 2
    /\ result.errors = 1
    /\ \E q \in result.call.accepted, r \in result.call.accepted :
          /\ q # r
          /\ <<q, <<"A", "f2">> >> \in result.call.missing
          /\ <<q, <<"A", "f1">> >> \in result.call.moved
          /\ <<r, <<"B", "f1">> >> \in result.call.moved

\* C16: when organize finishes after processing a work, the tracking summary
\* has been refreshed: its tracked folders are the folders that hold audio
\* files now (a folder whose files were all moved away is not tracked) and its
\* count is the number of records.
C16_SummaryCurrentAfterOrganize ==
    (result.op = "organize" /\ result.processed > 0) =>
        /\ summary.tracked_folders = get_current_folders(fs)
        /\ summary.audiobook_count = Cardinality(DOMAIN records)

C5_OrphanedExactly ==
    result.op = "orphaned" =>
        LET gone(r) == \A i \in DOMAIN records[r].paths :
                           fs[MediaFile(records[r].paths[i])] = 0
            untracked(r) ==
                ParentOf(records[r].paths[1]) \notin DOMAIN summary.tracked_folders
            dead == {r \in DOMAIN records :
                        records[r].paths = <<>> \/ gone(r) \/ untracked(r)}
            live == DOMAIN records \ dead
            claimants(f) == {r \in live : ParentOf(records[r].paths[1]) = f}
        IN /\ dead \subseteq result.found.metadata
           /\ \A f \in Folders : claimants(f) # {} =>
                 \E k \in claimants(f) :
                    /\ claimants(f) \cap result.found.metadata = claimants(f) \ {k}
                    /\ \A r \in claimants(f) : records[r].mtime <= records[k].mtime
           /\ \A r \in result.found.metadata : r \in covers => r \in result.found.covers

\* C6: when two or more live records (files present, folder tracked) claim the
\* same folder, cleanup_orphaned_data(dry_run=False) leaves exactly one of them,
\* one with the latest modification time, and no cover of the others.
C6_OneDuplicateSurvives ==
    [][(result'.op = "cleanup" /\ ~result'.dry_run) =>
         LET gone(r) == \A i \in DOMAIN records[r].paths :
                            fs[MediaFile(records[r].paths[i])] = 0
             untracked(r) ==
                 ParentOf(records[r].paths[1]) \notin DOMAIN summary.tracked_folders
             live == {r \in DOMAIN records :
                         records[r].paths # <<>> /\ ~gone(r) /\ ~untracked(r)}
             claimants(f) == {r \in live : ParentOf(records[r].paths[1]) = f}
         IN \A f \in Folders : Cardinality(claimants(f)) >= 2 =>
               \E k \in claimants(f) :
                  /\ claimants(f) \cap DOMAIN records' = {k}
                  /\ \A r \in claimants(f) : records[r].mtime <= records[k].mtime
                  /\ covers' \cap (claimants(f) \ {k}) = {}]_vars

\* C10: find_orphaned_metadata changes no record, no cover, no media file and
\* not the tracking summary, and a call that directly follows another returns
\* the same orphaned records and covers.
C10_FindOrphanedReadOnly ==
    [][result'.op = "orphaned" =>
         /\ records' = records
         /\ covers' = covers
         /\ fs' = fs
         /\ dirs' = dirs
         /\ summary' = summary
         /\ result.op = "orphaned" => result'.found = result.found]_vars

\* C10 witness: a call has reported orphaned records and covers, and all of
\* them are still in place
C10_Witness ==
    /\ result.op = "orphaned"
    /\ result.found.metadata # {}
    /\ result.found.covers # {}
    /\ result.found.metadata \subseteq DOMAIN records
    /\ result.found.covers \subseteq covers

\* C11: a dry run of cleanup_orphaned_data deletes nothing and reports the
\* counts; a real run deletes exactly the records and covers that
\* find_orphaned_metadata flags (those a report made just before it listed),
\* changes no remaining record, and reports the same counts.
C11_CleanupDeletesExactlyFlagged ==
    [][result'.op = "cleanup" =>
         LET found == find_orphaned_metadata(summary, records, covers, fs)
         IN /\ result'.orphaned_metadata_count = Cardinality(found.metadata)
            /\ result'.orphaned_covers_count = Cardinality(found.covers)
            /\ result.op = "orphaned" => result.found = found
            /\ fs' = fs /\ summary' = summary
            /\ IF result'.dry_run
               THEN records' = records /\ covers' = covers
               ELSE /\ DOMAIN records' = DOMAIN records \ found.metadata
                    /\ \A r \in DOMAIN records' : records'[r] = records[r]
                    /\ covers' = covers \ found.covers]_vars

\* C11 witness: a real cleanup has removed some records and covers and left
\* another record with its cover in place
C11_Witness ==
    /\ result.op = "cleanup"
    /\ ~result.dry_run
    /\ result.orphaned_metadata_count > 0
    /\ result.orphaned_covers_count > 0
    /\ \E r \in DOMAIN records : r \in covers
    /\ Cardinality(DOMAIN records) < nextId - 1

\* C12: cleanup_orphaned_data never deletes a record that is not orphaned (its
\* files exist, its folder is tracked, no other live record claims its folder)
\* and never deletes the cover of such a record.
C12_CleanupSparesLiveRecords ==
    [][result'.op = "cleanup" =>
         LET gone(r) == \A i \in DOMAIN records[r].paths :
                            fs[MediaFile(records[r].paths[i])] = 0
             untracked(r) ==
                 ParentOf(records[r].paths[1]) \notin DOMAIN summary.tracked_folders
             live == {r \in DOMAIN records :
                         records[r].paths # <<>> /\ ~gone(r) /\ ~untracked(r)}
             sole == {r \in live : \A q \in live :
                         ParentOf(records[q].paths[1]) = ParentOf(records[r].paths[1])
                            => q = r}
         IN \A r \in sole : /\ r \in DOMAIN records'
                            /\ r \in covers => r \in covers']_vars

\* C13: find_orphaned_metadata reports a cover exactly when no non-orphaned
\* record has the cover's stem as identifier: the covers of records without
\* existing files or tracked folder and covers without a record are reported,
\* of the live records of one folder the cover of one latest record is not
\* reported and the covers of the others are.
C13_CoverOrphanedExactly ==
    result.op = "orphaned" =>
        LET gone(r) == \A i \in DOMAIN records[r].paths :
                           fs[MediaFile(records[r].paths[i])] = 0
            untracked(r) ==
                ParentOf(records[r].paths[1]) \notin DOMAIN summary.tracked_folders
            dead == {r \in DOMAIN records :
                        records[r].paths = <<>> \/ gone(r) \/ untracked(r)}
            live == DOMAIN records \ dead
            claimants(f) == {r \in live : ParentOf(records[r].paths[1]) = f}
        IN /\ result.found.covers \subseteq covers
           /\ \A c \in covers : (c \notin DOMAIN records \/ c \in dead)
                                   => c \in result.found.covers
           /\ \A f \in Folders : claimants(f) # {} =>
                 \E k \in claimants(f) :
                    /\ \A r \in claimants(f) : records[r].mtime <= records[k].mtime
                    /\ k \notin result.found.covers
                    /\ (claimants(f) \ {k}) \cap covers \subseteq result.found.covers

\* ==== properties of scanning (SpecScan) ====

C8_DueExactlyWhenDifferent ==
    result.op = "due" =>
        LET cur == get_current_folders(fs)
            T == summary.tracked_folders
        IN result.due = {f \in DOMAIN cur :
                            \/ f \notin DOMAIN T
                            \/ cur[f].last_modified # T[f].last_modified
                            \/ cur[f].file_count # T[f].file_count}

C14_SummaryMirrorsMedia ==
    [][result'.op = "scan" =>
         /\ \A f \in Folders :
               f \in DOMAIN summary'.tracked_folders
                  <=> \E p \in AllPaths : p[1] = f /\ fs'[p] # 0
         /\ \A f \in DOMAIN summary'.tracked_folders :
               LET present == {p \in AllPaths : p[1] = f /\ fs'[p] # 0}
               IN /\ summary'.tracked_folders[f].file_count = Cardinality(present)
                  /\ \A p \in present : fs'[p] <= summary'.tracked_folders[f].last_modified
                  /\ \E p \in present : fs'[p] = summary'.tracked_folders[f].last_modified
         /\ summary'.audiobook_count = Cardinality(DOMAIN records')]_vars

\* C14 witness: a scan has tracked a folder of two files with different
\* modification times while another folder holds no audio file
C14_Witness ==
    /\ result.op = "scan"
    /\ \E f \in DOMAIN summary.tracked_folders :
          /\ summary.tracked_folders[f].file_count = 2
          /\ \E p \in AllPaths : p[1] = f /\ fs[p] # 0
                                  /\ fs[p] < summary.tracked_folders[f].last_modified
    /\ \E f \in Folders : f \notin DOMAIN summary.tracked_folders
    /\ summary.audiobook_count > 0

\* ==== properties of the tracking summary (SpecFrame) ====

C18_FallbackToFirst ==
    [][(org.pc = "work" /\ org' # org /\ org.dest_ok) =>
         \A r \in org.todo \ org'.todo :
            LET rec == records[r]
                first == generate_audiobook_paths(<<ParentOf(rec.paths[1]), 1>>, rec.paths)
            IN (rec.selected = 0 \/ rec.selected > rec.nsugg) =>
                  /\ org'.processed_count = org.processed_count + 1
                  /\ org'.error_count = org.error_count
                  /\ \A i \in DOMAIN rec.paths :
                        fs[MediaFile(rec.paths[i])] # 0 => first[i] \in dest']_vars

\* ==== properties of the folder cleanup (SpecFolders) ====

\* C19: with folder cleanup requested, a source folder left with no entries is
\* removed and counted in cleaned_folders, and a source folder that still holds
\* a non-hidden entry (an audio file or another file) is kept; the call
\* returns its response either way.
C19_EmptyFolderRemoved ==
    [][(org.pc = "finish" /\ org' # org /\ org.cleanup_empty_folders) =>
         LET audio(f) == {p \in AllPaths : p[1] = f /\ fs[p] # 0}
         IN /\ result'.op = "organize"
            /\ fs' = fs /\ extras' = extras
            /\ \A f \in org.source_folders_to_check \cap dirs :
                  /\ (audio(f) = {} /\ extras[f] = {}) => f \notin dirs'
                  /\ (audio(f) # {} \/ \E e \in extras[f] : e[1] # ".") => f \in dirs'
            /\ dirs' \subseteq dirs
            /\ result'.cleaned_folders = Cardinality(dirs \ dirs')]_vars

\* C19 witness: a move with cleanup has returned; it removed one emptied source
\* folder and kept another emptied source folder that holds a text file
C19_Witness ==
    /\ result.op = "organize"
    /\ ~result.call.copy_only
    /\ result.call.cleanup_empty_folders
    /\ result.cleaned_folders = 1
    /\ \E f \in result.call.source_folders_to_check : f \notin dirs
    /\ \E f \in result.call.source_folders_to_check :
          /\ f \in dirs
          /\ \A p \in AllPaths : p[1] = f => fs[p] = 0
          /\ \E e \in extras[f] : e[1] # "."

\* C20: with folder cleanup requested, a source folder whose only remaining
\* entries are hidden (dot-prefixed) is treated as empty: it is removed and
\* counted in cleaned_folders.
C20_HiddenOnlyFolderRemoved ==
    [][(org.pc = "finish" /\ org' # org /\ org.cleanup_empty_folders) =>
         \A f \in org.source_folders_to_check \cap dirs :
            (/\ \A p \in AllPaths : p[1] = f => fs[p] = 0
             /\ extras[f] # {}
             /\ \A e \in extras[f] : e[1] = ".")
               => (f \notin dirs' /\ result'.cleaned_folders >= 1)]_vars

\* C23: generate_paths_for_audiobook returns no result when the record has no
\* source paths or the index addresses no suggestion; the paths endpoint then
\* answers with an error and organize counts one error for the work, and
\* neither changes any file, record or cover for that work.
C23_NoResultIsRecoverable ==
    [][/\ \A r \in DOMAIN records : \A index \in 0..3 :
             /\ generate_paths_for_audiobook([records[r] EXCEPT !.paths = <<>>], index)
                   = NoPaths
             /\ index >= records[r].nsugg
                   => generate_paths_for_audiobook(records[r], index) = NoPaths
       /\ result'.op = "pathsreq" =>
             /\ records' = records /\ covers' = covers /\ fs' = fs /\ dest' = dest
             /\ result'.ok <=> (/\ result'.uuid \in DOMAIN records
                                /\ records[result'.uuid].paths # <<>>
                                /\ records[result'.uuid].nsugg > 0)
             /\ ~result'.ok => result'.status \in {400, 404}
       /\ (org.pc = "work" /\ org' # org) =>
             \A r \in org.todo \ org'.todo :
                LET rec == records[r]
                    index == IF rec.selected # 0 THEN rec.selected - 1 ELSE 0
                IN (rec.paths = <<>> \/ index >= rec.nsugg) =>
                      /\ org'.error_count = org.error_count + 1
                      /\ org'.processed_count = org.processed_count
                      /\ org'.attempted = org.attempted
                      /\ org'.successfully_organized = org.successfully_organized
                      /\ org'.pc \in {"work", "finish"}
                      /\ fs' = fs /\ dest' = dest
                      /\ records' = records /\ covers' = covers]_vars

\* C23 witness: organize has returned with an error for a work whose selection
\* id is beyond its suggestions, and the work is still there with its files
C23_Witness ==
    /\ result.op = "organize"
    /\ result.errors >= 1
    /\ \E r \in result.call.accepted :
          /\ r \in DOMAIN records
          /\ records[r].selected > records[r].nsugg
          /\ \A i \in DOMAIN records[r].paths : fs[MediaFile(records[r].paths[i])] # 0

\* ==== properties of the path generator (SpecPaths) ====

\* C21: for a suggestion and n >= 1 original files the path generator returns
\* n paths in input order, all in the same series/book folder; for n = 1 the
\* file name is the sanitized title plus the original extension, for n > 1
\* file i is named "<sanitized title> [Part NN]" with NN = i padded to two
\* digits plus the extension of file i; the order of the fields of the
\* suggestion does not matter.
C21_PathsPerFile ==
    result.op = "paths" =>
        LET m == result.audible_metadata
            p == result.original_paths
            out == result.value.organized_paths
            n == Len(p)
            title == sanitize_filename(Get(m, "title", UnknownTitle))
            dir(x) == SubSeq(x, 1, LastIndex(x, "/"))
            reversed == [i \in DOMAIN m |-> m[Len(m) + 1 - i]]
        IN /\ DOMAIN out = 1..n
           /\ \A i \in 1..n :
                 /\ dir(out[i]) = result.value.series_folder \o <<"/">>
                                     \o result.value.book_folder \o <<"/">>
                 /\ dir(out[i]) = dir(out[1])
                 /\ NameOf(out[i]) =
                       IF n = 1 THEN title \o Suffix(p[1])
                       ELSE title \o <<" ", "[", "P", "a", "r", "t", " ">> \o Pad2(i) \o <<"]">> \o Suffix(p[i])
                 /\ Len(Pad2(i)) = (IF i < 100 THEN 2 ELSE 3)
           /\ audiobook_paths(reversed, p).organized_paths = out

\* C21 witness: the paths of a work of more than nine files with mixed
\* extensions were generated from a suggestion with series, number and year
C21_Witness ==
    /\ result.op = "paths"
    /\ Len(result.original_paths) > 9
    /\ Len(result.audible_metadata) = 4
    /\ Get(result.audible_metadata, "book_number", 0) # 0
    /\ Get(result.audible_metadata, "title", <<>>) = PathOfDaggers
    /\ Suffix(result.original_paths[1]) # Suffix(result.original_paths[2])

\* C22 (as stated): for a single-file work whose suggestion has the title
\* "Path: Of Daggers?" and no series, the path is
\* Path Of Daggers/Path Of Daggers/Path Of Daggers<ext>, without ':' and '?'.
C22_PathOfDaggers ==
    (/\ result.op = "paths"
     /\ Len(result.original_paths) = 1
     /\ Get(result.audible_metadata, "title", <<>>) = PathOfDaggers
     /\ Get(result.audible_metadata, "series", <<>>) = <<>>
     /\ Get(result.audible_metadata, "book_number", 0) = 0
     /\ Get(result.audible_metadata, "year", <<>>) = <<>>)
    => LET out == result.value.organized_paths[1]
           clean == <<"P", "a", "t", "h", " ", "O", "f", " ", "D", "a", "g", "g", "e", "r", "s">>
       IN /\ out = clean \o <<"/">> \o clean \o <<"/">> \o clean
                      \o Suffix(result.original_paths[1])
          /\ \A i \in DOMAIN out : out[i] \notin {":", "?"}

\* C22 (amended): for that work the path is
\* Path - Of Daggers/Path - Of Daggers/Path - Of Daggers<ext>, without ':'
\* and '?'.
C22_PathDashOfDaggers ==
    (/\ result.op = "paths"
     /\ Len(result.original_paths) = 1
     /\ Get(result.audible_metadata, "title", <<>>) = PathOfDaggers
     /\ Get(result.audible_metadata, "series", <<>>) = <<>>
     /\ Get(result.audible_metadata, "book_number", 0) = 0
     /\ Get(result.audible_metadata, "year", <<>>) = <<>>)
    => LET out == result.value.organized_paths[1]
           clean == <<"P", "a", "t", "h", " ", "-", " ", "O", "f", " ", "D", "a", "g", "g", "e", "r", "s">>
       IN /\ out = clean \o <<"/">> \o clean \o <<"/">> \o clean
                      \o Suffix(result.original_paths[1])
          /\ \A i \in DOMAIN out : out[i] \notin {":", "?"}

\* C22 witness: the path of such a single-file work with extension .mp3 was
\* generated
C22_Witness ==
    /\ result.op = "paths"
    /\ Len(result.original_paths) = 1
    /\ result.audible_metadata = << <<"title", PathOfDaggers>> >>
    /\ Suffix(result.original_paths[1]) = <<".", "m", "p", "3">>

\* ==== properties of the match score (SpecScore) ====

\* C25: calculate_match_score always returns a value in [0,1], 0 when no field
\* applies, and a candidate that matches the local record exactly on
\* identifier, title, author and runtime scores strictly higher than any
\* candidate whose title is only similar.
C25_ScoreInUnitInterval ==
    result.op = "score" =>
        LET a == result.audible_meta
            l == result.local_meta
            v == result.value
            name(c) == Lower(IF c.has_authors /\ c.authors # <<>> /\ c.authors[1] # <<>>
                             THEN c.authors[1] ELSE c.author)
            exact == /\ l.asin # <<>> /\ Lower(a.asin) = Lower(l.asin)
                     /\ l.title # <<>> /\ Lower(a.title) = Lower(l.title)
                     /\ l.author # <<>> /\ name(a) = Lower(l.author)
                     /\ l.runtime_length_min # 0
                     /\ a.runtime_length_min = l.runtime_length_min
            applies == \/ l.asin # <<>> /\ a.asin # <<>>
                       \/ l.title # <<>> /\ a.title # <<>>
                       \/ l.author # <<>> /\ name(a) # <<>>
                       \/ l.runtime_length_min # 0 /\ a.runtime_length_min # 0
        IN /\ ~v.raised
           /\ v.den > 0 /\ 0 <= v.num /\ v.num <= v.den
           /\ ~applies => v.num = 0
           /\ exact =>
                 /\ v.num = v.den
                 /\ \A c \in CandidateInputs :
                       (c.title # <<>> /\ Lower(c.title) # Lower(l.title)) =>
                          LET w == calculate_match_score(c, l)
                          IN ~w.raised /\ v.num * w.den > w.num * v.den

\* ==== properties of the ranking (SpecRank) ====

\* C24: the suggestions are the candidates ordered by score descending, source
\* order preserved among equal scores, truncated to the first 10; the
\* suggestion at rank k has id k, and the default selection is id 1, the top
\* ranked one.
C24_RankedTruncatedNumbered ==
    (result.op = "enhanced" /\ ~result.value.raised /\ result.search_results # <<>>) =>
        LET found == result.search_results
            sug == result.value.audible_suggestions
            N == Len(sug)
            score(i) == calculate_match_score(found[i], result.local_metadata)
            before(i, j) == \/ ~ScoreAtLeast(score(j), score(i))
                            \/ ScoreAtLeast(score(i), score(j)) /\ i < j
        IN /\ N = (IF Len(found) > 10 THEN 10 ELSE Len(found))
           /\ \A k \in 1..N :
                 /\ sug[k].id = k
                 /\ sug[k].source \in 1..Len(found)
                 /\ sug[k].meta = found[sug[k].source]
                 /\ sug[k].match_score = score(sug[k].source)
           /\ \A k \in 1..N, m \in 1..N : k < m => before(sug[k].source, sug[m].source)
           /\ \A j \in 1..Len(found) :
                 (\A k \in 1..N : sug[k].source # j) =>
                     \A k \in 1..N : before(sug[k].source, j)
           /\ result.value.selected_audible_id = 1
           /\ \A j \in 1..Len(found) : j # sug[1].source => before(sug[1].source, j)

C24_Witness ==
    /\ result.op = "enhanced" /\ ~result.value.raised
    /\ Len(result.search_results) > 10
    /\ Len(result.value.audible_suggestions) = 10
    /\ \E k \in 1..9 :
          LET a == result.value.audible_suggestions[k]
              b == result.value.audible_suggestions[k + 1]
          IN a.match_score = b.match_score /\ a.meta # b.meta
    /\ \E k \in 1..9 :
          result.value.audible_suggestions[k].source > result.value.audible_suggestions[k + 1].source

\* ==== properties of the search (SpecSearch) ====

\* C26: search_audible issues its queries in the order identifier, title and
\* author, title only, containing-folder name, skipping the strategies whose
\* input is empty; it returns the result of the first query that yields a
\* candidate and issues no query after that one.
C26_FirstHitWins ==
    result.op = "search" =>
        LET q == result.query_data
            issued == result.value.issued
            planned == search_queries(q)
            rank(type) == CASE type = "asin" -> 1 [] type = "title_author" -> 2
                            [] type = "title" -> 3 [] type = "folder_name" -> 4
            yields(k) == issued[k][2] \in result.products
            types == {planned[k][1] : k \in 1..Len(planned)}
        IN /\ Len(issued) <= Len(planned)
           /\ \A k \in 1..Len(issued) : issued[k] = planned[k]
           /\ \A k \in 1..Len(planned), m \in 1..Len(planned) :
                 k < m => rank(planned[k][1]) < rank(planned[m][1])
           /\ q.asin = <<>> => "asin" \notin types
           /\ (q.title = <<>> \/ q.author = <<>>) => "title_author" \notin types
           /\ q.title = <<>> => "title" \notin types
           /\ q.filename = <<>> => "folder_name" \notin types
           /\ q.asin # <<>> => planned[1] = <<"asin", q.asin>>
           /\ \A k \in 1..Len(issued) : k < Len(issued) => ~yields(k)
           /\ IF \E k \in 1..Len(planned) : planned[k][2] \in result.products
              THEN /\ issued # <<>> /\ yields(Len(issued))
                   /\ result.value.results = <<[keywords |-> issued[Len(issued)][2]]>>
              ELSE /\ issued = planned
                   /\ result.value.results = <<>>

C26_Witness ==
    /\ result.op = "search"
    /\ Len(search_queries(result.query_data)) = 4
    /\ Len(result.value.issued) = 2
    /\ result.value.issued[2][1] = "title_author"
    /\ result.value.results # <<>>
    /\ result.value.issued[2][2] # result.query_data.title \o <<" ">> \o result.query_data.author
    /\ \E k \in 3..4 : search_queries(result.query_data)[k][2] \in result.products

\* ==== enrichment while records are created (SpecScan) ====

\* C27: when enrichment raises or yields no candidate while a record is being
\* created, the record is still persisted under its identifier with an empty
\* suggestion list and with a message explaining why there are no
\* suggestions, and the scan continues with the next folder.
C27_EmptyEnrichmentExplained ==
    (result.op = "scan" /\ catalog = 0) =>
        /\ result.count = Cardinality({f \in result.due : f \in dirs /\ AudioIn(fs, f) # {}})
        /\ Cardinality(result.new) = result.count
        /\ \A r \in result.new :
              /\ r \in DOMAIN records
              /\ records[r].nsugg = 0
              /\ records[r].audible_last_search # ""

\* ==== the selection request (SpecSelect) ====

\* C28: set-selected-suggestion with an id that identifies a suggestion of the
\* work stores that id as the record's selection and changes nothing else in
\* the record; with an id that identifies no suggestion, a non-positive or
\* non-integer id, or an unknown work, it returns an error and leaves every
\* record unchanged.
C28_SelectionValidated ==
    [][result'.op = "select" =>
          LET v == result'.selected_id
              r == result'.uuid
              names == /\ v.type = "int"
                       /\ r \in DOMAIN records
                       /\ v.n \in 1..records[r].nsugg
          IN IF names
             THEN /\ result'.ok
                  /\ records' = [records EXCEPT ![r].selected = v.n, ![r].mtime = clock]
             ELSE /\ ~result'.ok
                  /\ records' = records]_vars

\* ==== organize with an unreachable destination (SpecOrganize) ====

\* C30: if the destination root cannot be created or reached at all, organize
\* surfaces a single operation-level failure for the whole call and changes no
\* state: no file is copied or moved, no folder is removed and no record or
\* cover is deleted.
C30_DestinationFailureFailsTheCall ==
    (result.op = "organize" /\ ~result.call.dest_ok /\ result.call.accepted # {}) =>
        /\ ~result.success
        /\ result.errors <= 1
        /\ result.call.moved = {}
        /\ result.cleaned_folders = 0 /\ result.retired = {}

\* ==== the watcher and the operator (SpecWatch) ====

\* C29: a watcher-triggered rescan and an operator-triggered scan or organize
\* never run at the same time: at most one scan or commit operation is in
\* progress at any moment.
C29_OneOperationAtATime == ~(watcher.pc # "sleep" /\ org.pc # "idle")

\* ==== cleanup of nested source folders (SpecNested) ====

\* C31: with folder cleanup requested, organize considers every touched source
\* folder and all of its ancestors strictly below the media root, deepest
\* first, so a chain of nested folders emptied by the move is removed
\* completely in the same run; the media root and any folder that is neither
\* touched nor an ancestor of a touched folder is never removed.
C31_ChainRemovedBelowRoot ==
    result.op = "foldercleanup" =>
        LET D == NestedFolders \cup {MEDIA_ROOT}
            removed == D \ result.remaining
            considered == UNION {{SubSeq(f, 1, k) : k \in 2..Len(f)} :
                                    f \in result.source_folders_to_check}
            children(f) == {g \in NestedFolders : SubSeq(g, 1, Len(g) - 1) = f}
        IN /\ result.remaining \subseteq D
           /\ MEDIA_ROOT \notin removed
           /\ removed \subseteq considered
           /\ \A f \in considered :
                 f \in removed <=> (result.entries[f] = {} /\ children(f) \subseteq removed)
           /\ result.cleaned_folders = Cardinality(removed)

C31_Witness ==
    /\ result.op = "foldercleanup"
    /\ result.source_folders_to_check = {<<"m", "A", "B", "C">>, <<"m", "A", "D">>, MEDIA_ROOT}
    /\ result.remaining = {MEDIA_ROOT, <<"m", "E">>}
    /\ result.entries[<<"m", "E">>] = {}
    /\ result.entries[MEDIA_ROOT] = {}
    /\ result.cleaned_folders = 4

\* ==== the tracked folders after a rescan (SpecWatch) ====

\* C32: the tracked-folders map persisted at the end of a scan is the
\* current-state map returned by the get_folders_to_scan call that selected the
\* folders for that scan, so a folder changed after that call, while the scan
\* runs, is still reported as due by the next get_folders_to_scan.
C32_PersistsTheSelectionMap ==
    [][(watcher.pc = "track" /\ watcher'.pc = "cleanup") =>
          /\ summary'.tracked_folders = watcher.current_folders
          /\ \A f \in DOMAIN get_current_folders(fs') :
                (\/ f \notin DOMAIN watcher.current_folders
                 \/ get_current_folders(fs')[f] # watcher.current_folders[f])
                => f \in get_folders_to_scan(summary', fs')]_vars

\* ==== properties of the manual search (SpecManual) ====

\* C33: manual search queries the catalog only with the operator's free-text
\* query (no derived strategy such as the folder-name fallback) and ranks the
\* candidates with the author and identifier fields treated as empty; apart
\* from that it produces suggestions exactly as automatic enrichment does for
\* the same candidate list.
C33_FreeTextOnlyAndBlindRanking ==
    (result.op = "manual" /\ result.value.status = 200) =>
        LET v == result.value
            blind == [result.original_metadata EXCEPT !.asin = <<>>, !.author = <<>>]
        IN /\ \A k \in 1..Len(v.issued) : v.issued[k][1] = "title"
           /\ v.success =>
                 /\ v.audible_suggestions =
                       enhance_audiobook_metadata(v.search_results, blind).audible_suggestions
                 /\ v.selected_audible_id = 1
\* ---- scans in which files fail to parse or records fail to build ----
NextParse ==
    \/ \E p \in AllPaths : env = 0 /\ WriteFile(p, 1)
    \/ \E full \in BOOLEAN, u \in SUBSET AllPaths, g \in SUBSET Folders :
          ScanLibraryWith(full, u, g)
    \/ GetFoldersToScan

InitParse == InitScan /\ catalog = 1 /\ \A p \in AllPaths : fs[p] <= 1

SpecParse == InitParse /\ [][NextParse]_vars

\* C34: a scan builds exactly one record for each scanned folder that holds
\* audio files, and the record lists every audio file of the folder, files
\* whose tags could not be read included, ordered by track number with files
\* without a track number in their input order
C34_OneRecordWithEveryFile ==
    (result.op = "scan" /\ result.failing = {}) =>
        \A f \in result.due :
            (f \in dirs /\ AudioIn(fs, f) # {}) =>
                LET files == StableSort(FolderGroup(fs, f), [p \in AllPaths |-> TrackTag(p)], FALSE)
                    of_f == {r \in result.new :
                                \E i \in DOMAIN records[r].paths :
                                    ParentOf(records[r].paths[i]) = f}
                IN /\ Cardinality(of_f) = 1
                   /\ \A r \in of_f :
                         records[r].paths = [i \in DOMAIN files |-> <<files[i][1], "/", files[i][2]>>]
\* ---- every operation that writes suggestions or the selection ----
NextSuggest ==
    \/ env = 0 /\ \E c \in 0..2 : CatalogChange(c)
    \/ ScanLibrary(TRUE)
    \/ \E r \in 1..MaxId : EnhanceWithAudible(r)
    \/ \E force_refresh \in BOOLEAN : BulkEnhance(force_refresh)
    \/ \E r \in 1..MaxId, found \in 0..2 : ManualSearch(r, found)
    \/ \E r \in 1..MaxId, v \in {JsonInt(0), JsonInt(1), JsonInt(2)} : SelectAudible(r, v)

SpecSuggest == InitSelect /\ [][NextSuggest]_vars

\* C35: every stored record with suggestions has a selection id (1 when none
\* is stored) that is the id of one of its current suggestions, after any
\* sequence of scans, enrichments, bulk enrichments, manual searches and
\* set-selection calls
C35_SelectionNamesASuggestion ==
    \A r \in DOMAIN records :
        records[r].nsugg > 0 =>
            (IF records[r].selected = 0 THEN 1 ELSE records[r].selected) \in 1..records[r].nsugg
\* ---- move-mode organize calls repeated after a failure ----
\* files leave the media tree through the moves of organize only
NextRetry ==
    \/ ScanLibrary(TRUE)
    \/ \E r \in 1..MaxId : UpdateStatus(r, "accepted")
    \/ \E k \in BOOLEAN : OrganizeStart(FALSE, k, TRUE)
    \/ \E r \in 1..MaxId, fail \in SUBSET AllPaths : OrganizeWork(r, fail)
    \/ OrganizeFinish

SpecRetry == InitOrganize /\ [][NextRetry]_vars

\* C36: a move-mode organize that moved some files of an accepted work and
\* failed on the others leaves the record and the cover of the work as they
\* were, and a later organize of that record in which no transfer fails moves
\* the remaining files and retires the record
C36_RetryRetiresPartiallyMovedWork ==
    (result.op = "organize" /\ result.call.pc = "finish") =>
        \A r \in result.call.accepted :
            LET call == result.call
                files == {MediaFile(call.loaded[r].paths[i]) : i \in DOMAIN call.loaded[r].paths}
                moved == {q \in files : <<r, q>> \in call.moved}
                missing == {q \in files : <<r, q>> \in call.missing}
            IN /\ (moved # {} /\ moved # files /\ missing = {}) =>
                     /\ r \in DOMAIN records /\ records[r] = call.loaded[r]
                     /\ (r \in covers) = call.loaded[r].cover
               /\ (missing # {} /\ moved \cup missing = files) =>
                     /\ \A q \in files : fs[q] = 0
                     /\ r \notin DOMAIN records /\ r \notin covers
\* ---- the transfers of one organize run alone ----
\* one run in a behaviour
NextTransfers ==
    /\ result = NoResult
    /\ \E works \in TransferRunInputs : OrganizeTransfers(works)

SpecTransfers == InitPaths /\ [][NextTransfers]_vars

\* C37: within one organize run two distinct source files, of the same work
\* or of different accepted works, never go to the same destination path
C37_NoDestinationWrittenTwice ==
    result.op = "transfers" =>
        \A i, j \in DOMAIN result.value :
            result.value[i].source # result.value[j].source =>
                result.value[i].dest # result.value[j].dest
\* C38: when the processing of a due folder fails in a scan (none of its
\* files parses, or building its record raises) and no record is persisted
\* for it, the other due folders still get their records and the failed
\* folder is due again at the next get_folders_to_scan
C38_FailedFolderStaysDue ==
    result.op = "scan" =>
        \A f \in result.due :
            (f \in dirs /\ AudioIn(fs, f) # {}) =>
                LET failed == AudioIn(fs, f) \subseteq result.unparsed \/ f \in result.failing
                    of_f == {r \in result.new :
                                \E i \in DOMAIN records[r].paths :
                                    ParentOf(records[r].paths[i]) = f}
                IN IF failed
                   THEN of_f = {} /\ f \in get_folders_to_scan(summary, fs)
                   ELSE of_f # {}
\* C39: a find_orphaned_metadata call made right after
\* cleanup_orphaned_data(dry_run=False) reports no orphaned record and no
\* orphaned cover
C39_CleanupIsAFixedPoint ==
    [][(result.op = "cleanup" /\ ~result.dry_run /\ result'.op = "orphaned") =>
          (result'.found.metadata = {} /\ result'.found.covers = {})]_vars

\* a cleanup that removed a record and a cover and kept another record
C39_Witness ==
    /\ result.op = "cleanup" /\ ~result.dry_run
    /\ result.orphaned_metadata_count > 0 /\ result.orphaned_covers_count > 0
    /\ result.cleaned_items = result.orphaned_metadata_count + result.orphaned_covers_count
    /\ records # <<>>
\* ---- the notification queue and one event stream ----
NextNotify ==
    \/ NotifyChange
    \/ EventStreamPoll

\* "time.sleep(1)  # Check for new events every second": an open stream keeps
\* polling
SpecNotify == InitPaths /\ [][NextNotify]_vars /\ WF_vars(EventStreamPoll)

\* C40: the queue never holds more than 100 events, and every event appended
\* by notify_change is eventually sent exactly once on the connected event
\* stream, also when more than 100 events have been appended
C40_BoundedQueueDeliversEveryEvent ==
    /\ [](Len(sse.change_events) <= QueueLimit)
    /\ []<>(\A e \in 1..sse.appended :
                Cardinality({i \in DOMAIN sse.sent : sse.sent[i] = e}) = 1)
====
